---- MODULE Spec2Model ----
(***************************************************************************)
(* A model of odbc_viewer: the LRU result cache (core/cache.py), the view  *)
(* compiler (core/sqlbuilder.py) and the main window's cache handling      *)
(* (ui/main_window.py).                                                    *)
(*                                                                         *)
(* Python values are modelled as follows.  A text is a sequence of string  *)
(* tokens (concatenation is \o).  None is the record [t |-> "none"], an    *)
(* int n is [t |-> "int", i |-> n], a dict is [t |-> "dict", d |-> f] with *)
(* f a function from keys to values.  A dict key that is missing is not in *)
(* DOMAIN f.                                                               *)
(***************************************************************************)
EXTENDS Integers, Sequences, FiniteSets, TLC

VARIABLES
    capacity,       \* DFCache.capacity
    store,          \* DFCache._store: sequence of [key, df], least recently used first
    last,           \* the last DFCache call: its name, key argument, return value, evicted keys
    clock,          \* number of accesses (get hits and sets) made so far
    lastAccess,     \* key -> clock value of its last get hit or set since the last clear (0: none)
    insertedAt,     \* key -> clock value of the set that last made it resident (0: none)
    kArgs,          \* DFCache.make_key: its arguments [view_id, sql, binds]
    kKey,           \* DFCache.make_key: the bytes it feeds to the digest (<<>>: not called yet)
    bCfg,           \* SQLBuilder._queries_cfg: the queries.json dict
    bView,          \* the view dict given to SQLBuilder.build
    bParams,        \* the params dict given to SQLBuilder.build
    bResult,        \* what the last build call returned or raised
    bPrev,          \* what the build call before it returned or raised, on the same objects
    wQueries,       \* MainWindow._cfg._queries, the dict the window's SQLBuilder holds
    wViews,         \* MainWindow._views: the views of views.json, in the order of list_views
    wCurrent,       \* row of the item selected in list_views (1 is the first view)
    wLastKey,       \* MainWindow._last_key_by_view: view id -> cache key
    wTable,         \* the DataFrame the table shows
    wGen,           \* number of queries.json files loaded by _open_cfg so far
    wFormValues,    \* MainWindow._form_values_by_view: view id -> params last read from the form
    wColFilters,    \* MainWindow._col_filters_by_view: view id -> its [col, patt] items, oldest first
    wOp,            \* the last handler of the window that ran, how it ended, its fetch_df call
    pSource,        \* the source model of the proxy: its rows, each a sequence of cell values
    pPattern,       \* the text the user typed in the filter editor of a header section
    pFilters,       \* ColumnFilterProxyModel._filters: column index -> rule
    pRet,           \* the last call of the proxy: its name and its column argument
    pAccepts,       \* source row -> what filterAcceptsRow gave for it at the last invalidateFilter
    tOp,            \* thread -> the DFCache call it is in: arguments, next line, locals, outcome
    tHist,          \* the calls made by the threads so far: their number, the keys set, the clears
    oView,          \* the view dict given to SQLBuilder._apply_overrides
    oDialect,       \* the dialect given to SQLBuilder._apply_overrides
    oEff            \* what _apply_overrides returned, and the caller's view after the call

cacheVars == <<capacity, store, last, clock, lastAccess, insertedAt>>

keyVars == <<kArgs, kKey>>

buildVars == <<bCfg, bView, bParams, bResult, bPrev>>

winVars == <<wQueries, wViews, wCurrent, wLastKey, wTable, wGen, wFormValues, wColFilters, wOp>>

proxyVars == <<pSource, pPattern, pFilters, pRet, pAccepts>>

threadVars == <<tOp, tHist>>

ovrVars == <<oView, oDialect, oEff>>

vars == <<capacity, store, last, clock, lastAccess, insertedAt, kArgs, kKey,
          bCfg, bView, bParams, bResult, bPrev,
          wQueries, wViews, wCurrent, wLastKey, wTable, wGen, wFormValues, wColFilters,
          wOp, pSource, pPattern, pFilters, pRet, pAccepts, tOp, tHist,
          oView, oDialect, oEff>>

\* What an operation of one component leaves alone: the other components.
cacheOthers == <<keyVars, buildVars, winVars, proxyVars, threadVars, ovrVars>>
keyOthers == <<cacheVars, buildVars, winVars, proxyVars, threadVars, ovrVars>>
buildOthers == <<cacheVars, keyVars, winVars, proxyVars, threadVars, ovrVars>>
\* The window owns a DFCache and a proxy: its handlers change store and the
\* column filters, and leave the rest alone.
winOthers == <<capacity, last, clock, lastAccess, insertedAt, keyVars, buildVars,
               threadVars, ovrVars>>
\* The column filters of the window: those kept for each view, those of the proxy.
filterVars == <<wColFilters, proxyVars>>
proxyOthers == <<cacheVars, keyVars, buildVars, winVars, threadVars, ovrVars>>
\* The threads share one DFCache: their steps change store and leave the rest alone.
threadOthers == <<capacity, last, clock, lastAccess, insertedAt, keyVars, buildVars, winVars,
                  proxyVars, ovrVars>>
ovrOthers == <<cacheVars, keyVars, buildVars, winVars, proxyVars, threadVars>>

----------------------------------------------------------------------------
(* Bounds *)

MaxCap == 2             \* largest capacity argument tried
MaxText == 1            \* longest view id and SQL text given to make_key
MaxBinds == 2           \* longest bind list given to make_key
MaxFilters == 2          \* filters a view declares, at most
MaxOps == 5             \* accesses counted by clock before the cache spec stops
MaxReloads == 1         \* queries.json files the window loads, at most
MaxJoins == 1           \* joined tables in a view's from list, at most

NoDF == "None"          \* Python's None as returned by DFCache.get
DFs == {"df1", "df2"}   \* the DataFrames

\* One key more than the largest capacity, so that a full cache can see a new key.
CacheKeys == 1 .. (MaxCap + 1)
CapArgs == (-1) .. MaxCap

Max(a, b) == IF a >= b THEN a ELSE b
Min(a, b) == IF a <= b THEN a ELSE b

----------------------------------------------------------------------------
(* Python values and their repr *)

PyNone == [t |-> "none"]
PyInt(n) == [t |-> "int", i |-> n]
PyStr(chars) == [t |-> "str", s |-> chars]
PyDict(f) == [t |-> "dict", d |-> f]

\* The sequences over S of length at most n.
SeqsUpTo(S, n) == UNION {[1 .. m -> S] : m \in 0 .. n}

RECURSIVE Flatten(_)
Flatten(ss) == IF ss = <<>> THEN <<>> ELSE Head(ss) \o Flatten(Tail(ss))

\* sep.join(parts), parts a sequence of texts.
RECURSIVE Join(_, _)
Join(parts, sep) ==
    IF parts = <<>> THEN <<>>
    ELSE IF Len(parts) = 1 THEN parts[1]
    ELSE parts[1] \o sep \o Join(Tail(parts), sep)

Chars(text) == {text[i] : i \in DOMAIN text}

\* repr of a str: in double quotes when it holds a single quote and no double
\* quote, else in single quotes; the quote character and the backslash are escaped.
ReprStr(chars) ==
    LET q == IF "'" \in Chars(chars) /\ "\"" \notin Chars(chars) THEN "\"" ELSE "'"
        esc(c) == IF c = "\\" \/ c = q THEN <<"\\", c>> ELSE <<c>>
    IN <<q>> \o Flatten([i \in DOMAIN chars |-> esc(chars[i])]) \o <<q>>

\* The keys of a dict, listed in a fixed order.
RECURSIVE SetToSeq(_)
SetToSeq(S) ==
    IF S = {} THEN <<>>
    ELSE LET x == CHOOSE y \in S : TRUE IN <<x>> \o SetToSeq(S \ {x})

\* repr of a value.
RECURSIVE PyRepr(_)
PyRepr(v) ==
    CASE v.t = "none" -> <<"None">>
      [] v.t = "int" -> <<ToString(v.i)>>
      [] v.t = "str" -> ReprStr(v.s)
      [] v.t = "dict" ->
           LET ks == SetToSeq(DOMAIN v.d)
           IN <<"{">>
              \o Join([i \in DOMAIN ks |-> ReprStr(<<ks[i]>>) \o <<":", " ">> \o PyRepr(v.d[ks[i]])],
                      <<",", " ">>)
              \o <<"}">>

\* repr of a tuple: a one-element tuple keeps a trailing comma.
ReprTuple(vals) ==
    <<"(">> \o Join([i \in DOMAIN vals |-> PyRepr(vals[i])], <<",", " ">>)
            \o (IF Len(vals) = 1 THEN <<",">> ELSE <<>>) \o <<")">>

----------------------------------------------------------------------------
(* core/cache.py: DFCache.make_key *)

NUL == "\\0"            \* the byte b"\0"
NoText == <<"None">>    \* None given where a text is expected
NoBinds == <<[t |-> "NoneType"]>>   \* None given as the bind list
NoKey == <<>>

\* (x or ""): None and the empty text both give the empty text.
OrEmpty(text) == IF text = NoText THEN <<>> ELSE text

\* tuple(binds or ()): None and the empty list both give the empty tuple.
OrEmptyTuple(binds) == IF binds = NoBinds THEN <<>> ELSE binds

\* The bytes without the separators.
make_key_nosep(view_id, sql, binds) ==
    OrEmpty(view_id) \o OrEmpty(sql) \o ReprTuple(OrEmptyTuple(binds))

\* DFCache.make_key: the bytes fed to the SHA-1 digest, in the order of the three
\* update calls.  The digest itself is taken to be collision free, so the key is
\* identified with these bytes.
make_key(view_id, sql, binds) ==
    OrEmpty(view_id) \o <<NUL>> \o OrEmpty(sql) \o <<NUL>> \o ReprTuple(OrEmptyTuple(binds))

TextChars == {"a", NUL}
KeyTexts == SeqsUpTo(TextChars, MaxText) \cup {NoText}
KeyBindVals == {PyInt(1), PyStr(<<"1">>)}
KeyBinds == SeqsUpTo(KeyBindVals, MaxBinds) \cup {NoBinds}
KeyArgs == [view_id : KeyTexts, sql : KeyTexts, binds : KeyBinds]

KeyOf(a) == make_key(a.view_id, a.sql, a.binds)

KeyIdle ==
    /\ kArgs = [view_id |-> <<>>, sql |-> <<>>, binds |-> <<>>]
    /\ kKey = NoKey

----------------------------------------------------------------------------
(* core/sqlbuilder.py: SQLBuilder.  A dict is a function whose DOMAIN holds the  *)
(* keys present; a function that can raise returns [err, val], err = "" when it *)
(* returned val.                                                                *)

EmptyDict == [k \in {} |-> TRUE]
Has(d, k) == k \in DOMAIN d
\* dict.get(k, dflt)
Get(d, k, dflt) == IF k \in DOMAIN d THEN d[k] ELSE dflt
\* a copy of base updated with upd: dict.update, the keys of upd win
Update(base, upd) == upd @@ base

Ok(v) == [err |-> "", val |-> v]
Raise(e) == [err |-> e, val |-> <<>>]

NoName == "<None>"      \* None where a connection name is expected

\* SQLBuilder._get_connection
GetConnection(cfg, name) ==
    IF \E i \in DOMAIN cfg.connections : cfg.connections[i].name = name
    THEN Ok(cfg.connections[CHOOSE i \in DOMAIN cfg.connections :
                /\ cfg.connections[i].name = name
                /\ \A j \in 1 .. (i - 1) : cfg.connections[j].name # name])
    ELSE Raise("KeyError: Connection not found")

\* A merge of the filters in which the base filter keeps its own fields:
\* of.update(f) in place of nf.update(of).
merge_filters_base_wins(base, ovrFilters) ==
    LET baseIds == {base[i].id : i \in {j \in DOMAIN base : Has(base[j], "id")}}
        matches(fid) == {j \in DOMAIN ovrFilters : Get(ovrFilters[j], "id", "") = fid}
        first(fid) == CHOOSE j \in matches(fid) : \A k \in matches(fid) : j <= k
        merged == [i \in DOMAIN base |->
                     LET fid == Get(base[i], "id", "")
                     IN IF fid # "" /\ matches(fid) # {}
                        THEN Update(ovrFilters[first(fid)], base[i])
                        ELSE base[i]]
        fresh == SelectSeq(ovrFilters,
                     LAMBDA of : Get(of, "id", "") # "" /\ Get(of, "id", "") \notin baseIds)
    IN merged \o fresh

\* lines 65-85: the override's filters merged into the base filters by id.
MergeFilters(base, ovrFilters) ==
    LET baseIds == {base[i].id : i \in {j \in DOMAIN base : Has(base[j], "id")}}
        matches(fid) == {j \in DOMAIN ovrFilters : Get(ovrFilters[j], "id", "") = fid}
        first(fid) == CHOOSE j \in matches(fid) : \A k \in matches(fid) : j <= k
        merged == [i \in DOMAIN base |->
                     LET fid == Get(base[i], "id", "")
                     IN IF fid # "" /\ matches(fid) # {}
                        THEN Update(base[i], ovrFilters[first(fid)])
                        ELSE base[i]]
        fresh == SelectSeq(ovrFilters,
                     LAMBDA of : Get(of, "id", "") # "" /\ Get(of, "id", "") \notin baseIds)
    IN merged \o fresh

\* A merge of the select list that puts the override item in the place of the
\* base item of its alias: base[idx] = s in place of the updated copy.
RECURSIVE merge_select_replaces_item(_, _, _)
merge_select_replaces_item(base, byAlias, ovrSelect) ==
    IF ovrSelect = <<>> THEN base
    ELSE LET s == Head(ovrSelect)
             alias == Get(s, "alias", "")
         IN IF alias # "" /\ alias \in DOMAIN byAlias
            THEN merge_select_replaces_item([base EXCEPT ![byAlias[alias]] = s],
                                            byAlias, Tail(ovrSelect))
            ELSE merge_select_replaces_item(Append(base, s), byAlias, Tail(ovrSelect))

\* lines 93-104: the override's select items merged into the base items by alias.
RECURSIVE MergeSelect(_, _, _)
MergeSelect(base, byAlias, ovrSelect) ==
    IF ovrSelect = <<>> THEN base
    ELSE LET s == Head(ovrSelect)
             alias == Get(s, "alias", "")
         IN IF alias # "" /\ alias \in DOMAIN byAlias
            THEN MergeSelect([base EXCEPT ![byAlias[alias]] = Update(base[byAlias[alias]], s)],
                             byAlias, Tail(ovrSelect))
            ELSE MergeSelect(Append(base, s), byAlias, Tail(ovrSelect))

\* line 94: alias -> index of the last base item with that alias.
ByAlias(base) ==
    LET aliased == {i \in DOMAIN base : Get(base[i], "alias", "") # ""}
    IN [a \in {base[i].alias : i \in aliased} |->
            CHOOSE i \in aliased : base[i].alias = a /\ \A j \in aliased : base[j].alias = a => j <= i]

\* An _apply_overrides that takes the filters from the override whenever the
\* view carries an overrides object, an empty override giving no filters.
overridden_takes_filters(view, dialect) ==
    IF Has(view, "overrides")
    THEN Update(view, [filters |->
                         Get(Get(view.overrides, dialect, EmptyDict), "filters", <<>>)])
    ELSE view

\* The view as the dialect's override changes it (lines 61-115).
Overridden(view, dialect) ==
    LET ovr == Get(Get(view, "overrides", EmptyDict), dialect, EmptyDict)
        v1 == IF Has(ovr, "filters")
              THEN Update(view, [filters |-> MergeFilters(Get(view, "filters", <<>>), ovr.filters)])
              ELSE view
        v2 == IF Has(ovr, "select")
              THEN IF Get(ovr, "select_mode", "merge") = "replace"
                   THEN Update(v1, [select |-> ovr.select])
                   ELSE Update(v1, [select |-> MergeSelect(Get(v1, "select", <<>>),
                                                            ByAlias(Get(v1, "select", <<>>)),
                                                            ovr.select)])
              ELSE v1
        simple == {k \in {"order_by", "limit", "connection", "from"} : Has(ovr, k)}
    IN IF DOMAIN ovr = {} THEN view
       ELSE Update(v2, [k \in simple |-> ovr[k]])

\* _apply_overrides writing into the caller's view: v = view in place of the deep copy.
apply_overrides_inplace(view, dialect) ==
    [v |-> Overridden(view, dialect), view |-> Overridden(view, dialect)]

\* SQLBuilder._apply_overrides: v, the effective view, is a deep copy of view
\* with the override merged in; view is the caller's dict after the call.
ApplyOverrides(view, dialect) ==
    [v |-> Overridden(view, dialect), view |-> view]

\* The replacement fields a template can hold.
Placeholders == {"{0}", "{1}", "{n}", "{o}"}

\* str.format(*args): the positional fields the argument list fills.
PosArgs(args) ==
    LET names == <<"{0}", "{1}">>
    IN [p \in {names[j] : j \in 1 .. Min(2, Len(args))} |->
            args[CHOOSE j \in 1 .. 2 : names[j] = p]]

\* str.upper and str.lower, on the words the views use.
Upper(w) == CASE w = "count" -> "COUNT" [] w = "sum" -> "SUM" [] OTHER -> w
Lower(w) == CASE w = "HAVING" -> "having" [] w = "WHERE" -> "where" [] OTHER -> w

\* str.format: the fields of the template are replaced by the arguments; a field
\* with no argument raises.
Format(template, args) ==
    IF \E i \in DOMAIN template :
          template[i] \in Placeholders /\ template[i] \notin DOMAIN args
    THEN Raise("KeyError: format")
    ELSE Ok([i \in DOMAIN template |->
                IF template[i] \in DOMAIN args THEN args[template[i]] ELSE template[i]])

\* A _render_select_item that writes an item of unknown kind as its alias.
render_select_item_lenient(cfg, it, dialect) ==
    IF Get(it, "kind", "") = "column" THEN Ok(<<it.expr, " AS ", it.alias>>)
    ELSE Ok(<<it.alias>>)

\* SQLBuilder._render_select_item
RenderSelectItem(cfg, it, dialect) ==
    LET k == Get(it, "kind", "")
    IN IF k = "column" THEN Ok(<<it.expr, " AS ", it.alias>>)
       ELSE IF k = "expr" THEN
            LET exprs == Get(Get(cfg, "catalog", EmptyDict), "expressions", EmptyDict)
            IN IF ~Has(exprs, it.ref) THEN Raise("KeyError: expression")
               ELSE IF ~Has(exprs[it.ref].by_dialect, dialect) THEN Raise("KeyError: dialect")
               ELSE LET e == exprs[it.ref]
                        f == Format(e.by_dialect[dialect], PosArgs(e.args))
                    IN IF f.err # "" THEN Raise("IndexError: format")
                       ELSE Ok(f.val \o <<" AS ", it.alias>>)
       ELSE IF k = "agg" THEN
            LET args == Get(it, "args", <<>>)
                distinct == IF Get(it, "distinct", FALSE) THEN <<"DISTINCT ">> ELSE <<>>
            IN IF args = <<>> THEN Raise("ValueError: agg select item requires 'args'")
               ELSE Ok(<<Upper(it.func), "(">> \o distinct
                       \o Join([i \in DOMAIN args |-> <<args[i]>>], <<", ">>)
                       \o <<")", " AS ", it.alias>>)
       ELSE Raise("ValueError: Unknown select kind")

\* SQLBuilder._render_select: the rendered items and the headers.
RenderSelect(cfg, v, dialect) ==
    LET items == v.select
        parts == [i \in DOMAIN items |-> RenderSelectItem(cfg, items[i], dialect)]
        bad == {i \in DOMAIN items : parts[i].err # ""}
    IN IF bad # {}
       THEN Raise(parts[CHOOSE i \in bad : \A j \in bad : i <= j].err)
       ELSE Ok([parts |-> [i \in DOMAIN items |-> parts[i].val],
                headers |-> [i \in DOMAIN items |->
                               Get(items[i], "label", Get(items[i], "alias", "None"))]])

\* SQLBuilder._render_from
RenderFrom(v) ==
    LET items == v.from
        join(f) == <<" ", Get(Get(f, "join", EmptyDict), "type", "INNER"), " JOIN ",
                     f.table, " ", f.alias, " ON ", f.join.on>>
    IN <<" FROM ", items[1].table, " ", items[1].alias>>
       \o Flatten([i \in 1 .. (Len(items) - 1) |-> join(items[i + 1])])

\* line 159: the parameter ids of a filter.
Pids(flt) == Get(flt, "param_order", <<flt.id>>)

\* line 160: a parameter of the filter is a key of params.
RuntimeSupplied(flt, params) ==
    \E i \in DOMAIN Pids(flt) : Pids(flt)[i] \in DOMAIN params

\* A filter counted only when it is enabled.
active_enabled_only(flt, params) == Get(flt, "enabled", FALSE)

\* lines 160-162: the filter is not passed over as disabled.
FilterActive(flt, params) ==
    ~(~Get(flt, "enabled", FALSE) /\ ~RuntimeSupplied(flt, params))

\* lines 166-173: the value of one parameter id, from params or the default.
ResolvedValue(flt, params, pid) ==
    LET val == Get(params, pid, PyNone)
        defaults == Get(flt, "default", PyNone)
    IN IF val # PyNone THEN val
       ELSE IF defaults.t = "dict" THEN Get(defaults.d, pid, PyNone)
       ELSE IF Len(Pids(flt)) = 1 THEN defaults
       ELSE PyNone

\* lines 164-174: values
ResolvedValues(flt, params) ==
    [i \in DOMAIN Pids(flt) |-> ResolvedValue(flt, params, Pids(flt)[i])]

\* A filter kept whatever its values are.
all_null_never(values) == FALSE

\* line 176: all(vv is None for vv in values)
AllNull(values) == \A i \in DOMAIN values : values[i] = PyNone

\* The binds without the None values.
filter_binds_nonnull(flt, params) ==
    LET d == Get(flt, "default", PyDict(EmptyDict))
        fallback == IF d.t = "dict" THEN d ELSE Get(flt, "default", PyNone)
    IN SelectSeq([i \in DOMAIN Pids(flt) |-> Get(params, Pids(flt)[i], fallback)],
                 LAMBDA b : b # PyNone)

\* lines 182-183 and 186-187: the binds a contributing filter appends, one per
\* parameter id: params.get(pid, default dict or scalar default).
FilterBinds(flt, params) ==
    LET d == Get(flt, "default", PyDict(EmptyDict))
        fallback == IF d.t = "dict" THEN d ELSE Get(flt, "default", PyNone)
    IN [i \in DOMAIN Pids(flt) |-> Get(params, Pids(flt)[i], fallback)]

\* line 179
ClauseOf(flt) ==
    LET c == Get(flt, "clause", "")
    IN Lower(IF c = "" THEN "where" ELSE c)

\* lines 158-187: the loop over the filters, on the lists built so far.
RECURSIVE FilterLoop(_, _, _)
FilterLoop(filters, params, acc) ==
    IF filters = <<>> THEN acc
    ELSE LET flt == Head(filters)
             rest == Tail(filters)
         IN IF ~FilterActive(flt, params) THEN FilterLoop(rest, params, acc)
            ELSE IF AllNull(ResolvedValues(flt, params)) THEN FilterLoop(rest, params, acc)
            ELSE IF ~Has(flt, "where") THEN [acc EXCEPT !.err = "KeyError: 'where'"]
            ELSE IF ClauseOf(flt) = "having"
            THEN FilterLoop(rest, params,
                    [acc EXCEPT !.having_parts = Append(@, <<"(">> \o flt.where \o <<")">>),
                                !.having_params = @ \o FilterBinds(flt, params)])
            ELSE FilterLoop(rest, params,
                    [acc EXCEPT !.where_parts = Append(@, <<"(">> \o flt.where \o <<")">>),
                                !.where_params = @ \o FilterBinds(flt, params)])

\* A _render_filters that hands back the two bind lists in each other's place.
render_filters_binds_swapped(v, params) ==
    LET acc == FilterLoop(Get(v, "filters", <<>>), params,
                          [where_parts |-> <<>>, having_parts |-> <<>>,
                           where_params |-> <<>>, having_params |-> <<>>, err |-> ""])
    IN [err |-> acc.err,
        where_clause |-> IF acc.where_parts # <<>>
                         THEN <<"WHERE ">> \o Join(acc.where_parts, <<" AND ">>) ELSE <<>>,
        where_params |-> acc.having_params,
        having_clause |-> IF acc.having_parts # <<>>
                          THEN <<"HAVING ">> \o Join(acc.having_parts, <<" AND ">>) ELSE <<>>,
        having_params |-> acc.where_params]

\* SQLBuilder._render_filters; err is the KeyError of a contributing filter
\* that has no "where".
RenderFilters(v, params) ==
    LET acc == FilterLoop(Get(v, "filters", <<>>), params,
                          [where_parts |-> <<>>, having_parts |-> <<>>,
                           where_params |-> <<>>, having_params |-> <<>>, err |-> ""])
    IN [err |-> acc.err,
        where_clause |-> IF acc.where_parts # <<>>
                         THEN <<"WHERE ">> \o Join(acc.where_parts, <<" AND ">>) ELSE <<>>,
        where_params |-> acc.where_params,
        having_clause |-> IF acc.having_parts # <<>>
                          THEN <<"HAVING ">> \o Join(acc.having_parts, <<" AND ">>) ELSE <<>>,
        having_params |-> acc.having_params]

\* SQLBuilder._render_group_by and _render_order_by
RenderList(v, key, word) ==
    LET cols == Get(v, key, <<>>)
    IN IF cols # <<>>
       THEN <<word>> \o Join([i \in DOMAIN cols |-> <<cols[i]>>], <<", ">>)
       ELSE <<>>

\* A _render_limit that writes every style as a trailing clause.
render_limit_suffix_only(cfg, v, dialect) ==
    LET lim == Get(v, "limit", EmptyDict)
    IN IF DOMAIN lim = {} THEN Ok([suffix |-> <<>>, prefix |-> <<>>])
       ELSE LET f == Format(cfg.dialects[dialect].limit.template,
                            [p \in {"{n}", "{o}"} |->
                                IF p = "{n}" THEN ToString(lim.rows)
                                ELSE ToString(Get(lim, "offset", 0))])
            IN Ok([suffix |-> f.val, prefix |-> <<>>])

\* SQLBuilder._render_limit: limit suffix and top prefix
RenderLimit(cfg, v, dialect) ==
    LET lim == Get(v, "limit", EmptyDict)
    IN IF DOMAIN lim = {} THEN Ok([suffix |-> <<>>, prefix |-> <<>>])
       ELSE IF ~Has(cfg.dialects, dialect) THEN Raise("KeyError: dialect")
       ELSE LET lim_cfg == cfg.dialects[dialect].limit
                style == lim_cfg.style
                n == ToString(lim.rows)
                o == ToString(Get(lim, "offset", 0))
                top == Format(lim_cfg.template, [p \in {"{n}"} |-> n])
                lo == Format(lim_cfg.template, [p \in {"{n}", "{o}"} |-> IF p = "{n}" THEN n ELSE o])
            IN IF style = "top"
               THEN IF top.err # "" THEN top
                    ELSE Ok([suffix |-> <<>>, prefix |-> top.val \o <<" ">>])
               ELSE IF style = "fetch_first"
               THEN IF top.err # "" THEN top
                    ELSE Ok([suffix |-> top.val, prefix |-> <<>>])
               ELSE IF style = "limit"
               THEN IF lo.err # "" THEN lo
                    ELSE Ok([suffix |-> lo.val, prefix |-> <<>>])
               ELSE Ok([suffix |-> <<>>, prefix |-> <<>>])

\* " " + clause, whether the clause is empty or not.
spaced_always(clause) == <<" ">> \o clause

\* " " + clause when the clause is not empty (lines 31-40)
Spaced(clause) == IF clause # <<>> THEN <<" ">> \o clause ELSE <<>>

\* SQLBuilder.build: res is what the call returns, [err |-> e] when it raises e;
\* view is the caller's view dict after the call.
Build(cfg, view, params) ==
    LET conn_name == Get(view, "connection", Get(cfg, "default_connection", NoName))
        conn == GetConnection(cfg, conn_name)
    IN IF conn.err # "" THEN [res |-> [err |-> conn.err], view |-> view]
       ELSE
       LET dialect == conn.val.dialect
           ao == ApplyOverrides(view, dialect)
           v == ao.v
           sel == RenderSelect(cfg, v, dialect)
           flt == RenderFilters(v, params)
           lim == RenderLimit(cfg, v, dialect)
       IN IF sel.err # "" THEN [res |-> [err |-> sel.err], view |-> ao.view]
          ELSE IF flt.err # "" THEN [res |-> [err |-> flt.err], view |-> ao.view]
          ELSE IF lim.err # "" THEN [res |-> [err |-> lim.err], view |-> ao.view]
          ELSE [res |-> [err |-> "",
                         sql |-> <<"SELECT ">> \o lim.val.prefix
                                 \o Join(sel.val.parts, <<", ">>) \o RenderFrom(v)
                                 \o Spaced(flt.where_clause)
                                 \o Spaced(RenderList(v, "group_by", "GROUP BY "))
                                 \o Spaced(flt.having_clause)
                                 \o Spaced(RenderList(v, "order_by", "ORDER BY "))
                                 \o Spaced(lim.val.suffix),
                         binds |-> flt.where_params \o flt.having_params,
                         headers |-> sel.val.headers,
                         conn_name |-> conn_name],
                view |-> ao.view]

NoResult == [err |-> "not called"]

BuildIdle ==
    /\ bCfg = EmptyDict
    /\ bView = EmptyDict
    /\ bParams = EmptyDict
    /\ bResult = NoResult
    /\ bPrev = NoResult

----------------------------------------------------------------------------
(* ui/main_window.py: the window before any handler has run *)

EmptyDF == "empty"      \* pd.DataFrame(), what _clear_table shows

NoOp == [op |-> "init", err |-> "", loadable |-> FALSE, fetch |-> "none"]

WinIdle ==
    /\ wQueries = EmptyDict
    /\ wViews = <<>>
    /\ wCurrent = 0
    /\ wLastKey = EmptyDict
    /\ wTable = EmptyDF
    /\ wGen = 0
    /\ wFormValues = EmptyDict
    /\ wColFilters = EmptyDict
    /\ wOp = NoOp

\* No proxy call was made: no pattern typed, no rule installed.
NoCall == [op |-> "init", column |-> -1]

ProxyIdle ==
    /\ pSource = <<>>
    /\ pPattern = <<>>
    /\ pFilters = EmptyDict
    /\ pRet = NoCall
    /\ pAccepts = <<>>

\* The threads that share the cache, and a thread that is in no call.
Threads == {"t1", "t2"}
NoThreadOp == [op |-> "none", key |-> 0, df |-> NoDF, pc |-> "idle", local |-> NoDF,
               ret |-> NoDF, err |-> "", known |-> FALSE]
NoCalls == [calls |-> 0, cleared |-> FALSE, started |-> {}, completed |-> {}]

ThreadIdle ==
    /\ tOp = [t \in Threads |-> NoThreadOp]
    /\ tHist = NoCalls

\* _apply_overrides was not called.
NotApplied == [v |-> EmptyDict, view |-> EmptyDict, called |-> FALSE]

OvrIdle ==
    /\ oView = EmptyDict
    /\ oDialect = ""
    /\ oEff = NotApplied

----------------------------------------------------------------------------
(* core/cache.py: DFCache *)

Keys(s) == {s[i].key : i \in DOMAIN s}

\* OrderedDict.pop(key): the store without the entry of key.
Pop(s, key) == SelectSeq(s, LAMBDA e : e.key # key)

\* OrderedDict[key] of a resident key.
Lookup(s, key) == (CHOOSE i \in DOMAIN s : s[i].key = key)

\* OrderedDict[key] = df: replaces in place when resident, appends otherwise.
SetItem(s, key, df) ==
    IF key \in Keys(s)
    THEN [i \in DOMAIN s |-> IF s[i].key = key THEN [key |-> key, df |-> df] ELSE s[i]]
    ELSE Append(s, [key |-> key, df |-> df])

\* DFCache.__init__: capacity = max(1, int(capacity))
DFCache_init(cap) == Max(1, cap)

\* A get that only reads: no move to the end.
get_norefresh(s, key) ==
    IF key \in Keys(s)
    THEN [store |-> s, ret |-> s[Lookup(s, key)].df]
    ELSE [store |-> s, ret |-> NoDF]

\* A get that drops the oldest entry on a miss.
get_missdrops(s, key) ==
    IF key \in Keys(s)
    THEN [store |-> SetItem(Pop(s, key), key, s[Lookup(s, key)].df),
          ret |-> s[Lookup(s, key)].df]
    ELSE [store |-> IF s = <<>> THEN s ELSE Tail(s), ret |-> NoDF]

\* DFCache.get
DFCache_get(s, key) ==
    IF key \in Keys(s)
    THEN LET df == s[Lookup(s, key)].df
         IN [store |-> SetItem(Pop(s, key), key, df), ret |-> df]
    ELSE [store |-> s, ret |-> NoDF]

\* A set that never evicts.
set_noevict(s, cap, key, df) ==
    SetItem(IF key \in Keys(s) THEN Pop(s, key) ELSE s, key, df)

\* A set that makes room before it looks for the key: the length test of line
\* 33 made on the store as it was, with >= in place of >.
set_evicts_before_insert(s, cap, key, df) ==
    LET s0 == IF Len(s) >= cap THEN Tail(s) ELSE s
        s1 == IF key \in Keys(s0) THEN Pop(s0, key) ELSE s0
    IN SetItem(s1, key, df)

\* A set that replaces a resident key in place.
set_inplace(s, cap, key, df) ==
    LET s2 == SetItem(s, key, df)
    IN IF Len(s2) > cap THEN Tail(s2) ELSE s2

\* DFCache.set
DFCache_set(s, cap, key, df) ==
    LET s1 == IF key \in Keys(s) THEN Pop(s, key) ELSE s
        s2 == SetItem(s1, key, df)
    IN IF Len(s2) > cap THEN Tail(s2) ELSE s2

\* DFCache.clear
DFCache_clear(s) == <<>>

NoAccess == [k \in CacheKeys |-> 0]

CacheIdle ==
    /\ capacity = 1
    /\ store = <<>>
    /\ last = [op |-> "init", key |-> 0, ret |-> NoDF, evicted |-> {}]
    /\ clock = 0
    /\ lastAccess = NoAccess
    /\ insertedAt = NoAccess

CacheInit ==
    /\ \E cap \in CapArgs : capacity = DFCache_init(cap)
    /\ store = <<>>
    /\ last = [op |-> "init", key |-> 0, ret |-> NoDF, evicted |-> {}]
    /\ clock = 0
    /\ lastAccess = NoAccess
    /\ insertedAt = NoAccess
    /\ KeyIdle
    /\ BuildIdle
    /\ WinIdle
    /\ ProxyIdle
    /\ ThreadIdle
    /\ OvrIdle

CacheGet(key) ==
    LET r == DFCache_get(store, key)
        hit == key \in Keys(store)
    IN /\ clock < MaxOps
       /\ store' = r.store
       /\ last' = [op |-> "get", key |-> key, ret |-> r.ret, evicted |-> Keys(store) \ Keys(r.store)]
       /\ clock' = clock + 1
       /\ lastAccess' = IF hit THEN [lastAccess EXCEPT ![key] = clock + 1] ELSE lastAccess
       /\ UNCHANGED <<capacity, insertedAt, cacheOthers>>

CacheSet(key, df) ==
    LET s == DFCache_set(store, capacity, key, df)
    IN /\ clock < MaxOps
       /\ store' = s
       /\ last' = [op |-> "set", key |-> key, ret |-> NoDF, evicted |-> Keys(store) \ Keys(s)]
       /\ clock' = clock + 1
       /\ lastAccess' = [lastAccess EXCEPT ![key] = clock + 1]
       /\ insertedAt' = IF key \in Keys(store) THEN insertedAt
                                                ELSE [insertedAt EXCEPT ![key] = clock + 1]
       /\ UNCHANGED <<capacity, cacheOthers>>

CacheClear ==
    /\ clock < MaxOps
    /\ store' = DFCache_clear(store)
    /\ last' = [op |-> "clear", key |-> 0, ret |-> NoDF, evicted |-> Keys(store)]
    /\ clock' = clock + 1
    /\ lastAccess' = NoAccess
    /\ insertedAt' = NoAccess
    /\ UNCHANGED <<capacity, cacheOthers>>

CacheNext ==
    \/ \E key \in CacheKeys : CacheGet(key)
    \/ \E key \in CacheKeys, df \in DFs : CacheSet(key, df)
    \/ CacheClear

SpecCache == CacheInit /\ [][CacheNext]_vars

----------------------------------------------------------------------------
(* DFCache.make_key as a state machine: one call on arguments drawn at Init *)

KeyInit ==
    /\ kArgs \in KeyArgs
    /\ kKey = NoKey
    /\ CacheIdle
    /\ BuildIdle
    /\ WinIdle
    /\ ProxyIdle
    /\ ThreadIdle
    /\ OvrIdle

KeyCall ==
    /\ kKey = NoKey
    /\ kKey' = make_key(kArgs.view_id, kArgs.sql, kArgs.binds)
    /\ UNCHANGED <<kArgs, keyOthers>>

KeyNext == KeyCall

SpecKey == KeyInit /\ [][KeyNext]_vars

\* The arguments as make_key reads them: None as the empty text or tuple.
KeyNorm(a) ==
    [view_id |-> OrEmpty(a.view_id), sql |-> OrEmpty(a.sql), binds |-> OrEmptyTuple(a.binds)]

\* a and b differ in exactly one of view id, SQL text and bind list.
DifferInOne(a, b) ==
    Cardinality({f \in {"view_id", "sql", "binds"} : a[f] # b[f]}) = 1

NulFree(a) == NUL \notin Chars(OrEmpty(a.view_id)) \cup Chars(OrEmpty(a.sql))

\* No argument is None: the view id and the SQL are texts, the binds a list.
NoneFree(a) == a.view_id # NoText /\ a.sql # NoText /\ a.binds # NoBinds

\* C5 as stated: the bytes fed to the digest are an injective encoding of the
\* triple (view id, sql, binds): no other triple gives the bytes of this one
\* (stated here for the triples without None, where it already fails).
C5_InjectiveEncoding ==
    (kKey # NoKey /\ NoneFree(kArgs)) =>
        \A b \in KeyArgs : (NoneFree(b) /\ b # kArgs) => KeyOf(b) # kKey

\* C5 amended: reading None as the empty text or tuple, a triple that differs from
\* this one in exactly one component gives other bytes, and among the triples
\* whose view id and SQL hold no NUL the bytes determine the triple.
C5_KeyDistinguishes ==
    kKey # NoKey =>
        /\ kKey = KeyOf(KeyNorm(kArgs))
        /\ \A b \in KeyArgs :
              DifferInOne(KeyNorm(kArgs), KeyNorm(b)) => KeyOf(b) # kKey
        /\ \A b \in KeyArgs :
              (NulFree(kArgs) /\ NulFree(b) /\ KeyOf(b) = kKey) => KeyNorm(b) = KeyNorm(kArgs)

\* A key was computed for a triple with a view id, a SQL text and two different
\* binds, so that a triple with the binds swapped exists.
C5_Witness ==
    /\ kKey # NoKey
    /\ kArgs.view_id = <<"a">>
    /\ kArgs.sql = <<"a">>
    /\ kArgs.binds = <<PyInt(1), PyStr(<<"1">>)>>

----------------------------------------------------------------------------
(* SQLBuilder.build as a state machine: calls on one view, configuration and *)
(* params, drawn at Init                                                     *)

\* A queries.json: two connections of two dialects, the first the default.
BuildCfg ==
    [default_connection |-> "c1",
     connections |-> <<[name |-> "c1", dialect |-> "d1"], [name |-> "c2", dialect |-> "d2"]>>,
     dialects |-> [d1 |-> [limit |-> [style |-> "top", template |-> <<"TOP ", "{n}">>]],
                   d2 |-> [limit |-> [style |-> "limit",
                                      template |-> <<"LIMIT ", "{n}", " OFFSET ", "{o}">>]]]]

FilterIds == <<"f1", "f2", "f3", "f4">>
FilterWheres == <<"f1 = ?", "a >= ? AND b <= ?", "a <> ?", "a < ?">>

\* The k-th declared filter: the first has no param_order (its id is its
\* parameter), the second has the two parameters a and b, the others have a.
SlotKeys(k) ==
    IF k = 1 THEN EmptyDict
    ELSE IF k = 2 THEN [param_order |-> <<"a", "b">>]
    ELSE [param_order |-> <<"a">>]

SlotBase(k) == [id |-> FilterIds[k], where |-> <<FilterWheres[k]>>] @@ SlotKeys(k)

\* The defaults a filter can declare: none, null, a scalar, a mapping for its
\* first parameter only, a mapping for all its parameters (the first two
\* filters; the others declare none or a scalar).
SlotDefaults(k) ==
    LET pids == Pids(SlotBase(k))
    IN IF k > 2 THEN {EmptyDict, [default |-> PyInt(9)]}
       ELSE {EmptyDict, [default |-> PyNone], [default |-> PyInt(9)],
             [default |-> PyDict([p \in {pids[1]} |-> PyInt(1)])],
             [default |-> PyDict([p \in {pids[i] : i \in DOMAIN pids} |-> PyInt(1)])]}

\* The first two filters go to WHERE or to HAVING, the others to WHERE.
SlotClauses(k) == IF k > 2 THEN {EmptyDict} ELSE {EmptyDict, [clause |-> "HAVING"]}

SlotFilters(k) ==
    {SlotBase(k) @@ d @@ e @@ c :
        d \in SlotDefaults(k),
        e \in {[enabled |-> TRUE], [enabled |-> FALSE]},
        c \in SlotClauses(k)}

\* The filter lists: each of the MaxFilters filters declared or not.
RECURSIVE FilterLists(_)
FilterLists(k) ==
    IF k = 0 THEN {<<>>}
    ELSE LET shorter == FilterLists(k - 1)
         IN shorter \cup {Append(fs, f) : fs \in shorter, f \in SlotFilters(k)}

\* An override for dialect d1: it enables filter f1, adds the filter fx and
\* adds a select item.
BuildOverrides ==
    [d1 |-> [filters |-> <<[id |-> "f1", enabled |-> TRUE],
                           [id |-> "fx", where |-> <<"x = ?">>, enabled |-> TRUE,
                            default |-> PyInt(3)]>>,
             select |-> <<[kind |-> "column", expr |-> "extra", alias |-> "extra"]>>]]

BuildViewBase ==
    [id |-> "people",
     select |-> <<[kind |-> "column", expr |-> "name", alias |-> "name"]>>,
     from |-> <<[table |-> "people", alias |-> "p"]>>]

BuildViews ==
    {BuildViewBase @@ f @@ o :
        f \in {IF fs = <<>> THEN EmptyDict ELSE [filters |-> fs] : fs \in FilterLists(MaxFilters)},
        o \in {EmptyDict, [overrides |-> BuildOverrides]}}

\* The params FilterForm.collect_params gives: a value for some of the
\* parameter ids, never None (filter_form.py lines 115-117).
ParamKeys == {"f1", "a", "b"}
BuildParams == UNION {[ks -> {PyInt(5)}] : ks \in SUBSET ParamKeys}

BuildInit ==
    /\ bCfg = BuildCfg
    /\ bView \in BuildViews
    /\ bParams \in BuildParams
    /\ bResult = NoResult
    /\ bPrev = NoResult
    /\ CacheIdle
    /\ KeyIdle
    /\ WinIdle
    /\ ProxyIdle
    /\ ThreadIdle
    /\ OvrIdle

\* sql, binds, headers, conn_name = builder.build(view, params)
BuildCall ==
    LET b == Build(bCfg, bView, bParams)
    IN /\ bResult' = b.res
       /\ bPrev' = bResult
       /\ bView' = b.view
       /\ UNCHANGED <<bCfg, bParams, buildOthers>>

BuildNext == BuildCall

SpecBuild == BuildInit /\ [][BuildNext]_vars

----------------------------------------------------------------------------
(* SQLBuilder.build on views that use every clause: joins, GROUP BY, ORDER BY, *)
(* a limit under each dialect style, a declared connection, catalog and        *)
(* aggregate select items, overrides that are empty.                           *)

\* A queries.json with one connection per limit style; "rownum" is a style
\* _render_limit does not know.
SqlCfgBase ==
    [connections |-> <<[name |-> "c1", dialect |-> "d1"], [name |-> "c2", dialect |-> "d2"],
                       [name |-> "c3", dialect |-> "d3"], [name |-> "c4", dialect |-> "d4"]>>,
     dialects |-> [d1 |-> [limit |-> [style |-> "top", template |-> <<"TOP ", "{n}">>]],
                   d2 |-> [limit |-> [style |-> "limit",
                                      template |-> <<"LIMIT ", "{n}", " OFFSET ", "{o}">>]],
                   d3 |-> [limit |-> [style |-> "fetch_first",
                                      template |-> <<"FETCH FIRST ", "{n}", " ROWS ONLY">>]],
                   d4 |-> [limit |-> [style |-> "rownum", template |-> <<"ROWNUM <= ", "{n}">>]]],
     catalog |-> [expressions |->
                    [full_name |-> [by_dialect |-> [d1 |-> <<"{0}", " + ", "{1}">>,
                                                    d2 |-> <<"CONCAT(", "{0}", ", ", "{1}", ")">>],
                                    args |-> <<"first", "last">>]]]]

\* The default connection a queries.json names: a configured one, one that is
\* not configured, or none (the key is optional: Config.__init__ asks only for
\* connections and dialects).
SqlDefaults ==
    {[default_connection |-> "c1"], [default_connection |-> "c4"],
     [default_connection |-> "zz"], EmptyDict}

SqlCfgs == {SqlCfgBase @@ d : d \in SqlDefaults}

\* The connection a view declares, if any.
SqlConnections ==
    {EmptyDict, [connection |-> "c2"], [connection |-> "c3"], [connection |-> "zz"]}

\* The from list: the base table and n joined tables, the first joined with
\* the default join type.
SqlFrom(n) ==
    <<[table |-> "people", alias |-> "p"]>>
    \o [i \in 1 .. n |->
          IF i = 1 THEN [table |-> "orders", alias |-> "j1", join |-> [on |-> "j1.pid = p.id"]]
          ELSE [table |-> "items", alias |-> "j" \o ToString(i),
                join |-> [type |-> "LEFT", on |-> "j.oid = j1.id"]]]

\* Filters off by default and without default, so that the params decide which
\* of them contribute: w and ab go to WHERE, h goes to HAVING.
SqlW == [id |-> "w", where |-> <<"w = ?">>, enabled |-> FALSE]
SqlH == [id |-> "h", where |-> <<"COUNT(*) > ?">>, clause |-> "HAVING", enabled |-> FALSE]
SqlAB == [id |-> "ab", where |-> <<"a >= ? AND b <= ?">>, param_order |-> <<"a", "b">>,
          enabled |-> FALSE]

SqlFilterLists == {<<>>, <<SqlW>>, <<SqlH>>, <<SqlW, SqlH>>, <<SqlH, SqlW>>, <<SqlH, SqlAB>>}

\* The value the form gives for each parameter id, one value per id.
SqlValue(pid) ==
    CASE pid = "w" -> PyInt(11) [] pid = "h" -> PyInt(12) [] pid = "a" -> PyInt(13)
      [] OTHER -> PyInt(14)

SqlParams == {[pid \in ks |-> SqlValue(pid)] : ks \in {{}, {"w"}, {"h", "a"}, {"w", "h", "a", "b"}}}

SqlLimits == {EmptyDict, [limit |-> [rows |-> 2]], [limit |-> [rows |-> 2, offset |-> 3]]}

SqlColumn == [kind |-> "column", expr |-> "name", alias |-> "name"]

\* The select lists: a column, then possibly a catalog expression, an
\* aggregate, or an item build rejects.
SqlSelects ==
    {<<SqlColumn>>,
     <<SqlColumn, [kind |-> "expr", ref |-> "full_name", alias |-> "full", label |-> "Full name"]>>,
     <<SqlColumn, [kind |-> "expr", ref |-> "missing", alias |-> "m"]>>,
     <<SqlColumn, [kind |-> "agg", func |-> "count", args |-> <<"p.id">>, alias |-> "n"]>>,
     <<SqlColumn, [kind |-> "agg", func |-> "sum", alias |-> "s"]>>,
     <<SqlColumn, [kind |-> "window", alias |-> "x"]>>}

\* The overrides a view can carry that change nothing: an empty map, an empty
\* override for every dialect.
SqlEmptyOverrides ==
    {[overrides |-> EmptyDict],
     [overrides |-> [d \in {"d1", "d2", "d3", "d4"} |-> EmptyDict]]}

SqlViewBase(n) == [id |-> "people", select |-> <<SqlColumn>>, from |-> SqlFrom(n)]

\* Views that exercise the assembly of the clauses.
SqlClauseViews ==
    {SqlViewBase(n) @@ c @@ l @@ g @@ o @@ f :
        n \in 0 .. MaxJoins,
        c \in {[connection |-> "c1"], [connection |-> "c2"], [connection |-> "c3"],
               [connection |-> "c4"]},
        l \in SqlLimits,
        g \in {EmptyDict, [group_by |-> <<"name">>]},
        o \in {EmptyDict, [order_by |-> <<"name", "p.id">>]},
        f \in {IF fs = <<>> THEN EmptyDict ELSE [filters |-> fs] : fs \in SqlFilterLists}}

\* Views that exercise the resolution of the connection and the select items.
SqlSelectViews ==
    {[id |-> "people", select |-> sel, from |-> SqlFrom(0)] @@ c @@ l :
        sel \in SqlSelects, c \in SqlConnections, l \in {EmptyDict, [limit |-> [rows |-> 2]]}}

\* Views with an override that is empty.
SqlOverrideViews ==
    {SqlViewBase(0) @@ c @@ l @@ f @@ ov :
        c \in {EmptyDict, [connection |-> "c2"]},
        l \in {EmptyDict, [limit |-> [rows |-> 2]]},
        f \in {IF fs = <<>> THEN EmptyDict ELSE [filters |-> fs] : fs \in SqlFilterLists},
        ov \in SqlEmptyOverrides}

SqlInit ==
    /\ \/ bCfg = SqlCfgBase @@ [default_connection |-> "c1"]
          /\ bView \in SqlClauseViews \cup SqlOverrideViews
          /\ bParams \in SqlParams
       \/ bCfg \in SqlCfgs /\ bView \in SqlSelectViews /\ bParams = EmptyDict
    /\ bResult = NoResult
    /\ bPrev = NoResult
    /\ CacheIdle
    /\ KeyIdle
    /\ WinIdle
    /\ ProxyIdle
    /\ ThreadIdle
    /\ OvrIdle

SpecSql == SqlInit /\ [][BuildNext]_vars

----------------------------------------------------------------------------
(* core/cache.py: DFCache called by several threads, one line at a time *)

MaxCalls == 3           \* calls the threads make in all, at most

\* A thread between two calls, and a thread at a line of get, set or clear.
Ready(t) == tOp[t].pc \in {"idle", "done"}
At(t, pc) == tOp[t].pc = pc
Goto(t, pc) == tOp' = [tOp EXCEPT ![t].pc = pc]
Return(t, ret) == tOp' = [tOp EXCEPT ![t].pc = "done", ![t].ret = ret]
RaiseIn(t, e) == tOp' = [tOp EXCEPT ![t].pc = "done", ![t].err = e]

\* The thread calls cache.get(key), cache.set(key, df) or cache.clear().
ThreadCall(t, op, key, df) ==
    /\ Ready(t)
    /\ tHist.calls < MaxCalls
    /\ tOp' = [tOp EXCEPT ![t] = [op |-> op, key |-> key, df |-> df, pc |-> op \o "_1",
                                   local |-> NoDF, ret |-> NoDF, err |-> "",
                                   known |-> key \in tHist.completed]]
    /\ tHist' = [tHist EXCEPT !.calls = @ + 1,
                              !.cleared = @ \/ op = "clear",
                              !.started = IF op = "set" THEN @ \cup {key} ELSE @]
    /\ UNCHANGED <<store, threadOthers>>

\* get, line 23: if key in self._store (line 27: return None)
GetTest(t) ==
    /\ At(t, "get_1")
    /\ IF tOp[t].key \in Keys(store) THEN Goto(t, "get_2") ELSE Return(t, NoDF)
    /\ UNCHANGED <<store, tHist, threadOthers>>

\* get, line 24: df = self._store.pop(key)
GetPop(t) ==
    /\ At(t, "get_2")
    /\ IF tOp[t].key \in Keys(store)
       THEN /\ tOp' = [tOp EXCEPT ![t].pc = "get_3",
                                  ![t].local = store[Lookup(store, tOp[t].key)].df]
            /\ store' = Pop(store, tOp[t].key)
       ELSE /\ RaiseIn(t, "KeyError")
            /\ UNCHANGED store
    /\ UNCHANGED <<tHist, threadOthers>>

\* get, lines 25-26: self._store[key] = df; return df
GetPut(t) ==
    /\ At(t, "get_3")
    /\ store' = SetItem(store, tOp[t].key, tOp[t].local)
    /\ Return(t, tOp[t].local)
    /\ UNCHANGED <<tHist, threadOthers>>

\* set, line 30: if key in self._store
SetTest(t) ==
    /\ At(t, "set_1")
    /\ IF tOp[t].key \in Keys(store) THEN Goto(t, "set_2") ELSE Goto(t, "set_3")
    /\ UNCHANGED <<store, tHist, threadOthers>>

\* set, line 31: self._store.pop(key)
SetPop(t) ==
    /\ At(t, "set_2")
    /\ IF tOp[t].key \in Keys(store)
       THEN /\ Goto(t, "set_3")
            /\ store' = Pop(store, tOp[t].key)
       ELSE /\ RaiseIn(t, "KeyError")
            /\ UNCHANGED store
    /\ UNCHANGED <<tHist, threadOthers>>

\* set, line 32: self._store[key] = df
SetPut(t) ==
    /\ At(t, "set_3")
    /\ store' = SetItem(store, tOp[t].key, tOp[t].df)
    /\ Goto(t, "set_4")
    /\ UNCHANGED <<tHist, threadOthers>>

\* set, line 33: if len(self._store) > self.capacity (else the call returns)
SetLen(t) ==
    /\ At(t, "set_4")
    /\ IF Len(store) > capacity
       THEN Goto(t, "set_5") /\ UNCHANGED tHist
       ELSE Return(t, NoDF) /\ tHist' = [tHist EXCEPT !.completed = @ \cup {tOp[t].key}]
    /\ UNCHANGED <<store, threadOthers>>

\* set, line 34: self._store.popitem(last=False)
SetEvict(t) ==
    /\ At(t, "set_5")
    /\ IF store # <<>>
       THEN /\ store' = Tail(store)
            /\ Return(t, NoDF)
            /\ tHist' = [tHist EXCEPT !.completed = @ \cup {tOp[t].key}]
       ELSE /\ RaiseIn(t, "KeyError")
            /\ UNCHANGED <<store, tHist>>
    /\ UNCHANGED threadOthers

\* clear, line 37: self._store.clear()
ThreadClear(t) ==
    /\ At(t, "clear_1")
    /\ store' = DFCache_clear(store)
    /\ Return(t, NoDF)
    /\ UNCHANGED <<tHist, threadOthers>>

ThreadInit ==
    /\ \E cap \in 1 .. MaxCap : capacity = DFCache_init(cap)
    /\ store = <<>>
    /\ last = [op |-> "init", key |-> 0, ret |-> NoDF, evicted |-> {}]
    /\ clock = 0
    /\ lastAccess = NoAccess
    /\ insertedAt = NoAccess
    /\ KeyIdle
    /\ BuildIdle
    /\ WinIdle
    /\ ProxyIdle
    /\ ThreadIdle
    /\ OvrIdle

ThreadNext ==
    \E t \in Threads :
        \/ \E key \in CacheKeys : ThreadCall(t, "get", key, NoDF)
        \/ \E key \in CacheKeys, df \in DFs : ThreadCall(t, "set", key, df)
        \/ ThreadCall(t, "clear", 0, NoDF)
        \/ GetTest(t)
        \/ GetPop(t)
        \/ GetPut(t)
        \/ SetTest(t)
        \/ SetPop(t)
        \/ SetPut(t)
        \/ SetLen(t)
        \/ SetEvict(t)
        \/ ThreadClear(t)

SpecThreads == ThreadInit /\ [][ThreadNext]_vars

----------------------------------------------------------------------------
(* Texts of the column filters: str methods, float() *)

\* The element of a set of one element.
Only(S) == CHOOSE x \in S : TRUE

\* A text is a sequence of characters, each a string of length one.
Digits == {"0", "1", "2", "3", "4", "5", "6", "7", "8", "9"}
DigitVal(c) == CHOOSE n \in 0 .. 9 : ToString(n) = c
UpperLetters == <<"A", "B", "C", "D", "E", "F", "G", "H", "I", "J", "K", "L", "M",
                  "N", "O", "P", "Q", "R", "S", "T", "U", "V", "W", "X", "Y", "Z">>
LowerLetters == <<"a", "b", "c", "d", "e", "f", "g", "h", "i", "j", "k", "l", "m",
                  "n", "o", "p", "q", "r", "s", "t", "u", "v", "w", "x", "y", "z">>
Letters == {UpperLetters[i] : i \in 1 .. 26} \cup {LowerLetters[i] : i \in 1 .. 26}
IsSpace(c) == c = " "

\* text[a : b] of Python with 1-based, inclusive positions.
Slice(text, a, b) == IF a > b THEN <<>> ELSE SubSeq(text, a, b)
Rest(text, a) == Slice(text, a, Len(text))

\* str.lower
LowerChar(c) ==
    IF \E i \in 1 .. 26 : UpperLetters[i] = c
    THEN LowerLetters[CHOOSE i \in 1 .. 26 : UpperLetters[i] = c]
    ELSE c
LowerText(text) == [i \in DOMAIN text |-> LowerChar(text[i])]

\* The first and the last position of the text that holds no blank (0: none).
FirstNonBlank(text) ==
    IF \A i \in DOMAIN text : IsSpace(text[i]) THEN 0
    ELSE CHOOSE i \in DOMAIN text : ~IsSpace(text[i]) /\ \A j \in 1 .. (i - 1) : IsSpace(text[j])
LastNonBlank(text) ==
    IF \A i \in DOMAIN text : IsSpace(text[i]) THEN 0
    ELSE CHOOSE i \in DOMAIN text :
            ~IsSpace(text[i]) /\ \A j \in (i + 1) .. Len(text) : IsSpace(text[j])

\* str.lstrip, str.rstrip, str.strip
LStrip(text) ==
    Only({Only({IF a = 0 THEN <<>> ELSE Rest(t, a) : a \in {FirstNonBlank(t)}}) : t \in {text}})
RStrip(text) ==
    Only({Only({IF b = 0 THEN <<>> ELSE Slice(t, 1, b) : b \in {LastNonBlank(t)}}) : t \in {text}})
Strip(text) ==
    Only({Only({IF a = 0 THEN <<>> ELSE Slice(t, a, b) :
                   a \in {FirstNonBlank(t)}, b \in {LastNonBlank(t)}}) : t \in {text}})

\* str.startswith, the in operator of two strs
StartsWith(text, prefix) ==
    Len(prefix) <= Len(text) /\ Slice(text, 1, Len(prefix)) = prefix
Contains(text, needle) ==
    \E i \in 1 .. (Len(text) - Len(needle) + 1) : Slice(text, i, i + Len(needle) - 1) = needle

AllDigits(text) == \A i \in DOMAIN text : text[i] \in Digits

\* int() of the first k characters of a text of digits.
RECURSIVE DigitsUpTo(_, _)
DigitsUpTo(ds, k) ==
    IF k = 0 THEN 0 ELSE 10 * DigitsUpTo(ds, k - 1) + DigitVal(ds[k])
DigitsValue(ds) == Only({DigitsUpTo(t, Len(t)) : t \in {ds}})

Pow10(k) == CASE k <= 0 -> 1 [] k = 1 -> 10 [] k = 2 -> 100 [] k = 3 -> 1000
              [] k = 4 -> 10000 [] k = 5 -> 100000 [] k = 6 -> 1000000
              [] k = 7 -> 10000000 [] k = 8 -> 100000000 [] OTHER -> 1000000000

\* A float that a decimal text denotes: the fraction n / d, d a power of ten as
\* small as possible, so that equal numbers are equal values.
TrailingZeros(n) ==
    IF n = 0 THEN 0 ELSE CHOOSE k \in 0 .. 9 : n % Pow10(k) = 0 /\ (k = 9 \/ n % Pow10(k + 1) # 0)
Num(n, e) ==
    \* n times ten to the power e
    Only({IF m = 0 THEN [t |-> "float", n |-> 0, d |-> 1]
          ELSE IF x >= 0 THEN [t |-> "float", n |-> m * Pow10(x), d |-> 1]
          ELSE Only({[t |-> "float", n |-> m \div Pow10(z), d |-> Pow10((-x) - z)] :
                        z \in {Min(TrailingZeros(m), -x)}}) :
            m \in {n}, x \in {e}})
NumLe(a, b) == a.n * b.d <= b.n * a.d

\* float(text) of a text without blanks around it: a sign, digits with an
\* optional point, an optional exponent.  Anything else raises ValueError.
\* (The texts of the model hold no "inf", "nan" or underscore.)
FloatOf(s) ==
    LET first == IF s # <<>> /\ s[1] \in {"+", "-"} THEN 2 ELSE 1
        isE(i) == s[i] \in {"e", "E"}
        \* the end of the mantissa: before the exponent letter, else the end
        mend == IF \E i \in DOMAIN s : isE(i)
                THEN (CHOOSE i \in DOMAIN s : isE(i) /\ \A j \in 1 .. (i - 1) : ~isE(j)) - 1
                ELSE Len(s)
    IN Only({
         LET efirst == IF m + 2 <= Len(s) /\ s[m + 2] \in {"+", "-"} THEN m + 3 ELSE m + 2
             points == {i \in first .. m : s[i] = "."}
             digits == SelectSeq(Slice(s, first, m), LAMBDA c : c # ".")
             fraclen == IF points = {} THEN 0 ELSE m - Only(points)
             wellFormed ==
                 /\ Cardinality(points) <= 1
                 /\ \A i \in first .. m : s[i] \in Digits \cup {"."}
                 /\ \E i \in first .. m : s[i] \in Digits
                 /\ m < Len(s) => (efirst <= Len(s) /\ AllDigits(Rest(s, efirst)))
             expo == IF m = Len(s) THEN 0
                     ELSE DigitsValue(Rest(s, efirst)) * (IF s[m + 2] = "-" THEN -1 ELSE 1)
         IN IF ~wellFormed THEN Raise("ValueError")
            ELSE Ok(Num(DigitsValue(digits) * (IF s[1] = "-" THEN -1 ELSE 1), expo - fraclen))
         : m \in {mend}})
PyFloat(text) == Only({FloatOf(s) : s \in {Strip(text)}})

\* ColumnFilterProxyModel._parse_number: the commas are dropped, and a text
\* that float() refuses gives None.
ParseNumber(s) ==
    Only({IF f.err # "" THEN PyNone ELSE f.val :
            f \in {PyFloat(SelectSeq(s, LAMBDA c : c # ","))}})

----------------------------------------------------------------------------
(* Dates of the column filters: datetime.strptime, datetime.fromisoformat *)

\* A datetime is its fields <<year, month, day, hour, minute, second>>, ordered
\* as datetime orders them: field by field from the year on.
PyDatetime(fields) == [t |-> "datetime", v |-> fields]
DtLe(a, b) ==
    \/ a.v = b.v
    \/ \E i \in 1 .. 6 : a.v[i] < b.v[i] /\ \A j \in 1 .. (i - 1) : a.v[j] = b.v[j]

IsLeap(y) == y % 4 = 0 /\ (y % 100 # 0 \/ y % 400 = 0)
DaysIn(y, m) ==
    IF m = 2 THEN (IF IsLeap(y) THEN 29 ELSE 28)
    ELSE IF m \in {4, 6, 9, 11} THEN 30 ELSE 31

\* datetime(year, month, day, hour, minute, second) accepts the fields.
ValidDatetime(f) ==
    /\ f[1] \in 1 .. 9999
    /\ f[2] \in 1 .. 12
    /\ f[3] \in 1 .. DaysIn(f[1], f[2])
    /\ f[4] \in 0 .. 23
    /\ f[5] \in 0 .. 59
    /\ f[6] \in 0 .. 59

\* The formats _parse_datetime tries, in its order. A directive is written as
\* its letter after a percent sign, anything else stands for itself.
Fmt_Ymd == <<"%Y", "-", "%m", "-", "%d">>
Fmt_dmY == <<"%d", "/", "%m", "/", "%Y">>
Fmt_mdY == <<"%m", "/", "%d", "/", "%Y">>
Fmt_HM == <<"%H", ":", "%M">>
Fmt_HMS == <<"%H", ":", "%M", ":", "%S">>
DatetimeFormats ==
    << Fmt_Ymd, Fmt_Ymd \o <<" ">> \o Fmt_HM, Fmt_Ymd \o <<" ">> \o Fmt_HMS,
       Fmt_dmY, Fmt_dmY \o <<" ">> \o Fmt_HM, Fmt_dmY \o <<" ">> \o Fmt_HMS,
       Fmt_mdY, Fmt_mdY \o <<" ">> \o Fmt_HM, Fmt_mdY \o <<" ">> \o Fmt_HMS,
       Fmt_Ymd \o <<"T">> \o Fmt_HM, Fmt_Ymd \o <<"T">> \o Fmt_HMS >>

FieldOf(directive) ==
    CASE directive = "%Y" -> 1 [] directive = "%m" -> 2 [] directive = "%d" -> 3
      [] directive = "%H" -> 4 [] directive = "%M" -> 5 [] directive = "%S" -> 6

\* How many characters of the text a directive takes: four digits for the year,
\* one or two digits for the others (for the day also a blank and a digit);
\* 0 when the text does not start with the directive's field.
FieldWidthOf(directive, text) ==
    LET digitsAt(n) == Len(text) >= n /\ AllDigits(Slice(text, 1, n))
    IN IF directive = "%Y" THEN (IF digitsAt(4) THEN 4 ELSE 0)
       ELSE IF digitsAt(2) THEN 2
       ELSE IF digitsAt(1) THEN 1
       ELSE IF directive = "%d" /\ Len(text) >= 2 /\ text[1] = " " /\ text[2] \in Digits \ {"0"}
            THEN 2
       ELSE 0

\* The blanks a text starts with.
LeadingBlanks(text) == Only({Len(t) - Len(LStrip(t)) : t \in {text}})

FieldWidth(directive, text) == Only({FieldWidthOf(directive, t) : t \in {text}})

\* datetime.strptime(text, fmt) from the position pos of the text and the
\* k-th item of the format on: the fields read so far are in acc; a text that
\* does not follow the format, or fields that are no date, raise.
RECURSIVE StrptimeFrom(_, _, _, _, _)
StrptimeFrom(text, fmt, k, pos, acc) ==
    IF k > Len(fmt)
    THEN IF pos > Len(text) /\ ValidDatetime(acc) THEN Ok(PyDatetime(acc)) ELSE Raise("ValueError")
    ELSE IF fmt[k] = " "
    THEN Only({IF n = 0 THEN Raise("ValueError")
               ELSE Only({StrptimeFrom(text, fmt, k + 1, q, acc) : q \in {pos + n}}) :
                 n \in {LeadingBlanks(Rest(text, pos))}})
    ELSE IF fmt[k] \in {"-", "/", ":", "T"}
    THEN IF pos <= Len(text) /\ text[pos] = fmt[k]
         THEN Only({StrptimeFrom(text, fmt, k + 1, q, acc) : q \in {pos + 1}})
         ELSE Raise("ValueError")
    ELSE Only({IF w = 0 THEN Raise("ValueError")
               ELSE Only({StrptimeFrom(text, fmt, k + 1, q, fields) :
                             q \in {pos + w},
                             fields \in {[acc EXCEPT ![FieldOf(fmt[k])] =
                                             DigitsValue(LStrip(Slice(text, pos, pos + w - 1)))]}}) :
                 w \in {FieldWidth(fmt[k], Rest(text, pos))}})

NoFields == <<1900, 1, 1, 0, 0, 0>>

\* datetime.fromisoformat(text): the date as YYYY-MM-DD or YYYYMMDD, then
\* nothing, or any one character and the time as HH, HH:MM or HH:MM:SS.
\* (The texts of the model hold no week date, fraction of a second or offset.)
FromIsoFormat(text) ==
    LET two(t) == DigitsValue(Slice(t, 1, 2))
        dlen == IF Len(text) >= 10 /\ text[5] = "-" THEN 10 ELSE 8
        d == Slice(text, 1, dlen)
        dateOk ==
            /\ Len(text) >= dlen
            /\ IF dlen = 10
               THEN AllDigits(Slice(d, 1, 4)) /\ d[8] = "-"
                    /\ AllDigits(Slice(d, 6, 7)) /\ AllDigits(Slice(d, 9, 10))
               ELSE AllDigits(d)
        ymd == IF dlen = 10
               THEN <<DigitsValue(Slice(d, 1, 4)), two(Rest(d, 6)), two(Rest(d, 9))>>
               ELSE <<DigitsValue(Slice(d, 1, 4)), two(Rest(d, 5)), two(Rest(d, 7))>>
        tm == Rest(text, dlen + 2)
        timeOk ==
            \/ Len(text) = dlen
            \/ /\ Len(tm) \in {2, 5, 8}
               /\ AllDigits(Slice(tm, 1, 2))
               /\ Len(tm) >= 5 => (tm[3] = ":" /\ AllDigits(Slice(tm, 4, 5)))
               /\ Len(tm) = 8 => (tm[6] = ":" /\ AllDigits(Slice(tm, 7, 8)))
        hms == <<IF Len(tm) >= 2 THEN two(tm) ELSE 0,
                 IF Len(tm) >= 5 THEN two(Rest(tm, 4)) ELSE 0,
                 IF Len(tm) = 8 THEN two(Rest(tm, 7)) ELSE 0>>
    IN IF dateOk /\ timeOk /\ ValidDatetime(ymd \o hms)
       THEN Ok(PyDatetime(ymd \o hms))
       ELSE Raise("ValueError")

\* str.replace(old, new), for the two replacements of _parse_datetime.
ReplaceChar(text, old, new) == [i \in DOMAIN text |-> IF text[i] = old THEN new ELSE text[i]]
DropBlankAfterT(text) ==
    Only({SelectSeq([i \in DOMAIN t |-> IF i > 1 /\ t[i] = " " /\ t[i - 1] = "T" THEN "" ELSE t[i]],
                    LAMBDA c : c # "") : t \in {text}})

\* ColumnFilterProxyModel._parse_datetime: the first format that reads the
\* text gives the datetime, else fromisoformat, else None.
RECURSIVE TryFormats(_, _)
TryFormats(text, k) ==
    IF k > Len(DatetimeFormats)
    THEN Only({IF iso.err # "" THEN PyNone ELSE iso.val : iso \in {FromIsoFormat(text)}})
    ELSE Only({IF got.err = "" THEN got.val ELSE TryFormats(text, k + 1) :
                 got \in {Only({StrptimeFrom(text, fmt, 1, 1, NoFields) :
                                   fmt \in {DatetimeFormats[k]}})}})

ParseDatetime(s) ==
    Only({TryFormats(s_norm, 1) :
            s_norm \in {DropBlankAfterT(ReplaceChar(Strip(s), "t", "T"))}})

\* ColumnFilterProxyModel._looks_like_date: digits around two separators, or
\* the short name of a month as a word, or the letter t.
MonthNames ==
    { <<"j", "a", "n">>, <<"f", "e", "b">>, <<"m", "a", "r">>, <<"a", "p", "r">>,
      <<"m", "a", "y">>, <<"j", "u", "n">>, <<"j", "u", "l">>, <<"a", "u", "g">>,
      <<"s", "e", "p">>, <<"o", "c", "t">>, <<"n", "o", "v">>, <<"d", "e", "c">> }
IsWordChar(c) == c \in Letters \/ c \in Digits \/ c = "_"

LooksLikeDateOf(s) ==
    LET sep(i) == i \in DOMAIN s /\ s[i] \in {"-", "/"}
        digit(i) == i \in DOMAIN s /\ s[i] \in Digits
    IN \/ \E i \in DOMAIN s, n \in 1 .. 2 :
             /\ digit(i - 1) /\ sep(i)
             /\ \A k \in 1 .. n : digit(i + k)
             /\ sep(i + n + 1) /\ digit(i + n + 2)
       \/ \E i \in DOMAIN s :
             /\ i + 2 <= Len(s) /\ Slice(s, i, i + 2) \in MonthNames
             /\ (i = 1 \/ ~IsWordChar(s[i - 1]))
             /\ (i + 2 = Len(s) \/ ~IsWordChar(s[i + 3]))
       \/ \E i \in DOMAIN s : s[i] = "t"
LooksLikeDate(text) == Only({LooksLikeDateOf(s) : s \in {LowerText(Strip(text))}})

----------------------------------------------------------------------------
(* ui/models.py: ColumnFilterProxyModel *)

\* The rules of _filters, and the absence of a rule.
NoRule == [kind |-> "none"]
Substr(patt) == [kind |-> "substr", patt |-> patt]
Regex(patt) == [kind |-> "regex", patt |-> patt]
NumCmp(op, val) == [kind |-> "num_cmp", op |-> op, val |-> val]
NumRng(lo, hi) == [kind |-> "num_rng", lo |-> lo, hi |-> hi]
DtCmp(op, dt) == [kind |-> "dt_cmp", op |-> op, val |-> dt]
DtRng(lo, hi) == [kind |-> "dt_rng", lo |-> lo, hi |-> hi]

NoMatch == [m |-> FALSE]

\* _cmp_re: blanks, an operator (the first of the alternatives that lets the
\* rest match), blanks, an operand of one character at least.
CmpOps == << <<"<", "=">>, <<">", "=">>, <<"<">>, <<">">>, <<"=", "=">>, <<"=">>, <<"!", "=">> >>
CmpReOf(s) ==
    Only({IF fits = {} THEN NoMatch
          ELSE Only({[m |-> TRUE, op |-> CmpOps[k],
                      rhs |-> IF rest = <<>> THEN <<" ">> ELSE rest] :
                        k \in {CHOOSE k \in fits : \A j \in fits : k <= j},
                        rest \in {Strip(Rest(s, 1 + Len(CmpOps[CHOOSE k \in fits :
                                                                  \A j \in fits : k <= j])))}}) :
            fits \in {{k \in DOMAIN CmpOps :
                          StartsWith(s, CmpOps[k]) /\ Len(s) > Len(CmpOps[k])}}})
CmpRe(text) == Only({CmpReOf(s) : s \in {LStrip(text)}})

\* One side of _num_rng_re: an optional minus, a digit, digits and commas, and
\* an optional point followed by digits.
NumSideOf(u) ==
    Only({/\ u # <<>> /\ u[1] \in Digits
          /\ \A i \in 1 .. (p - 1) : u[i] \in Digits \cup {","}
          /\ p <= Len(u) => (p < Len(u) /\ \A i \in (p + 1) .. Len(u) : u[i] \in Digits) :
            p \in {IF \E i \in DOMAIN u : u[i] = "."
                   THEN CHOOSE i \in DOMAIN u : u[i] = "." /\ \A j \in 1 .. (i - 1) : u[j] # "."
                   ELSE Len(u) + 1}})
NumSide(t) == Only({NumSideOf(u) : u \in {IF t # <<>> /\ t[1] = "-" THEN Tail(t) ELSE t}})

\* The two sides of a text around its two points at the position i.
SidesAt(s, i) == [m |-> TRUE, a |-> RStrip(Slice(s, 1, i - 1)), b |-> LStrip(Rest(s, i + 2))]

\* _num_rng_re: two such sides around two points, blanks allowed around each.
NumRngReOf(s) ==
    Only({IF at = {} THEN NoMatch ELSE SidesAt(s, Only(at)) :
            at \in {{i \in 1 .. (Len(s) - 1) :
                        /\ s[i] = "." /\ s[i + 1] = "."
                        /\ NumSide(RStrip(Slice(s, 1, i - 1)))
                        /\ NumSide(LStrip(Rest(s, i + 2)))}}})
NumRngRe(text) == Only({NumRngReOf(s) : s \in {Strip(text)}})

\* _any_rng_re: the shortest first side of one character at least, two points,
\* a second side of one character at least.
AnyRngReOf(s) ==
    Only({IF at = {} THEN NoMatch ELSE SidesAt(s, CHOOSE i \in at : \A j \in at : i <= j) :
            at \in {{i \in 2 .. (Len(s) - 2) : s[i] = "." /\ s[i + 1] = "."}}})
AnyRngRe(text) == Only({AnyRngReOf(s) : s \in {Strip(text)}})

\* s.split(":", 1)[1]: what follows the first colon.
AfterColon(s) == Rest(s, 1 + CHOOSE i \in DOMAIN s : s[i] = ":" /\ \A j \in 1 .. (i - 1) : s[j] # ":")

\* setColumnFilter, lines 86-98: the rule of a text of the comparison form.
CompareRule(s, force_date, op, rhs) ==
    Only({IF dt # PyNone THEN DtCmp(op, dt)
          ELSE Only({IF num # PyNone THEN NumCmp(op, num) ELSE Substr(s) :
                        num \in {ParseNumber(rhs)}}) :
            dt \in {IF force_date \/ LooksLikeDate(rhs) THEN ParseDatetime(rhs) ELSE PyNone}})

\* A numeric range that keeps its bounds in the order written.
num_range_rule_unsorted(a, b) ==
    IF a # PyNone /\ b # PyNone THEN NumRng(a, b) ELSE NoRule

\* setColumnFilter, lines 101-108: the numeric range of the two sides, if both
\* are numbers.
NumRangeRule(a, b) ==
    IF a # PyNone /\ b # PyNone
    THEN (IF NumLe(a, b) THEN NumRng(a, b) ELSE NumRng(b, a))
    ELSE NoRule

\* setColumnFilter, lines 111-118: the date range of the two sides, if both
\* are dates.
DateRangeRule(a, b) ==
    IF a # PyNone /\ b # PyNone
    THEN (IF DtLe(a, b) THEN DtRng(a, b) ELSE DtRng(b, a))
    ELSE NoRule

\* A classification that tries the date range before the numeric range.
range_rule_dates_first(s, force_date) ==
    Only({IF dr # NoRule THEN dr
          ELSE Only({IF nr # NoRule THEN nr ELSE Substr(s) :
                 nr \in {Only({IF mnum.m
                               THEN Only({NumRangeRule(a, b) :
                                             a \in {ParseNumber(mnum.a)},
                                             b \in {ParseNumber(mnum.b)}})
                               ELSE NoRule :
                                 mnum \in {NumRngRe(s)}})}}) :
            dr \in {Only({IF /\ many.m
                             /\ (force_date \/ LooksLikeDate(many.a) \/ LooksLikeDate(many.b))
                          THEN Only({DateRangeRule(a, b) :
                                        a \in {ParseDatetime(many.a)},
                                        b \in {ParseDatetime(many.b)}})
                          ELSE NoRule :
                            many \in {AnyRngRe(s)}})}})

\* setColumnFilter, lines 100-122: the rule of a text that has not the
\* comparison form.
RangeRule(s, force_date) ==
    Only({IF nr # NoRule THEN nr
          ELSE Only({IF dr # NoRule THEN dr ELSE Substr(s) :
                 dr \in {Only({IF /\ many.m
                                  /\ (force_date \/ LooksLikeDate(many.a) \/ LooksLikeDate(many.b))
                               THEN Only({DateRangeRule(a, b) :
                                             a \in {ParseDatetime(many.a)},
                                             b \in {ParseDatetime(many.b)}})
                               ELSE NoRule :
                                 many \in {AnyRngRe(s)}})}}) :
            nr \in {Only({IF mnum.m
                          THEN Only({NumRangeRule(a, b) :
                                        a \in {ParseNumber(mnum.a)}, b \in {ParseNumber(mnum.b)}})
                          ELSE NoRule :
                            mnum \in {NumRngRe(s)}})}})

\* setColumnFilter, lines 84-122: the rule of a text that is neither empty nor
\* a regex, after its date prefix was cut off.
TypedRule(text, force_date) ==
    Only({Only({IF m.m THEN CompareRule(s, force_date, m.op, m.rhs)
                ELSE RangeRule(s, force_date) :
                   m \in {CmpRe(s)}}) :
            s \in {text}})

\* setColumnFilter, lines 67-83: no rule for a blank text, a regex rule for the
\* prefix re:, else the typed rule of the text without its date prefix.
RuleOfText(s) ==
    Only({IF s = <<>> THEN NoRule
          ELSE IF StartsWith(low, <<"r", "e", ":">>) THEN Regex(Rest(s, 4))
          ELSE IF StartsWith(low, <<"d", "a", "t", "e", ":">>) \/ StartsWith(low, <<"d", "t", ":">>)
          THEN TypedRule(Strip(AfterColon(s)), TRUE)
          ELSE TypedRule(s, FALSE) :
            low \in {LowerText(s)}})

\* setColumnFilter, lines 64-122: the rule it stores for the pattern, NoRule
\* when it stores none.
RuleOf(pattern) ==
    IF pattern = PyNone THEN NoRule
    ELSE Only({RuleOfText(s) : s \in {Strip(pattern.s)}})

\* dict.pop(column, None)
DictPop(filters, column) == [c \in DOMAIN filters \ {column} |-> filters[c]]

\* A setColumnFilter that empties _filters on a pattern without rule:
\* self._filters.clear() in place of self._filters.pop(column, None).
set_column_filter_blank_clears(filters, column, pattern) ==
    Only({IF rule = NoRule THEN EmptyDict
          ELSE Update(filters, [c \in {column} |-> rule]) :
            rule \in {RuleOf(pattern)}})

\* ColumnFilterProxyModel.setColumnFilter: the _filters it leaves.
Proxy_setColumnFilter(filters, column, pattern) ==
    Only({IF rule = NoRule THEN DictPop(filters, column)
          ELSE Update(filters, [c \in {column} |-> rule]) :
            rule \in {RuleOf(pattern)}})

\* _compare and _compare_dt, with the comparisons of Python: None equals no
\* number and no datetime, and ordering it against one raises TypeError.
Compare(v, op, t, le(_, _)) ==
    LET lt(a, b) == le(a, b) /\ a # b
    IN IF op \in {<<"=">>, <<"=", "=">>} THEN Ok(v = t)
       ELSE IF op = <<"!", "=">> THEN Ok(v # t)
       ELSE IF op \notin {<<"<">>, <<"<", "=">>, <<">">>, <<">", "=">>} THEN Ok(FALSE)
       ELSE IF v = PyNone THEN Raise("TypeError")
       ELSE IF op = <<"<">> THEN Ok(lt(v, t))
       ELSE IF op = <<"<", "=">> THEN Ok(le(v, t))
       ELSE IF op = <<">">> THEN Ok(lt(t, v))
       ELSE Ok(le(t, v))

\* lo <= v <= hi
Between(lo, v, hi, le(_, _)) ==
    IF v = PyNone THEN Raise("TypeError") ELSE Ok(le(lo, v) /\ le(v, hi))

\* QRegExp(patt, Qt.CaseInsensitive).indexIn(text) >= 0, for the patterns of
\* the model: characters that stand for themselves, the point for any
\* character, ^ in front and $ at the end.
RegexFinds(patt, text) ==
    LET p == LowerText(patt)
        t == LowerText(text)
        anchoredL == p # <<>> /\ p[1] = "^"
        q == IF anchoredL THEN Tail(p) ELSE p
        anchoredR == q # <<>> /\ q[Len(q)] = "$"
        body == IF anchoredR THEN Slice(q, 1, Len(q) - 1) ELSE q
    IN \E i \in 1 .. (Len(t) - Len(body) + 1) :
          /\ anchoredL => i = 1
          /\ anchoredR => i + Len(body) - 1 = Len(t)
          /\ \A k \in DOMAIN body : body[k] = "." \/ body[k] = t[i + k - 1]

\* A matching that compares the parsed cell without asking whether it parsed.
matches_typed_unguarded(rule, text) ==
    IF rule.kind \in {"num_cmp", "num_rng"}
    THEN Only({IF rule.kind = "num_cmp" THEN Compare(v, rule.op, rule.val, NumLe)
               ELSE Between(rule.lo, v, rule.hi, NumLe) :
                 v \in {ParseNumber(text)}})
    ELSE Only({IF rule.kind = "dt_cmp" THEN Compare(v, rule.op, rule.val, DtLe)
               ELSE Between(rule.lo, v, rule.hi, DtLe) :
                 v \in {ParseDatetime(text)}})

\* ColumnFilterProxyModel._matches, lines 155-173: the rules of numbers and
\* dates on the cell's text.
MatchesTyped(rule, text) ==
    IF rule.kind \in {"num_cmp", "num_rng"}
    THEN Only({IF v = PyNone THEN Ok(FALSE)
               ELSE IF rule.kind = "num_cmp" THEN Compare(v, rule.op, rule.val, NumLe)
               ELSE Between(rule.lo, v, rule.hi, NumLe) :
                 v \in {ParseNumber(text)}})
    ELSE Only({IF v = PyNone THEN Ok(FALSE)
               ELSE IF rule.kind = "dt_cmp" THEN Compare(v, rule.op, rule.val, DtLe)
               ELSE Between(rule.lo, v, rule.hi, DtLe) :
                 v \in {ParseDatetime(text)}})

\* ColumnFilterProxyModel._matches
Matches(rule, value) ==
    Only({IF rule.kind = "substr" THEN Ok(Contains(LowerText(text), LowerText(rule.patt)))
          ELSE IF rule.kind = "regex" THEN Ok(RegexFinds(rule.patt, text))
          ELSE IF rule.kind \in {"num_cmp", "num_rng", "dt_cmp", "dt_rng"}
          THEN MatchesTyped(rule, text)
          ELSE Ok(TRUE) :
            text \in {IF value = PyNone THEN <<>> ELSE value.s}})

\* src.data(src.index(source_row, col)) of filterAcceptsRow: the display text
\* of the cell, None where the source model has no such cell.
CellValue(source, source_row, col) ==
    IF source_row \in DOMAIN source /\ (col + 1) \in DOMAIN source[source_row]
    THEN LET val == source[source_row][col + 1]
         IN IF val = PyNone THEN PyStr(<<>>) ELSE val
    ELSE PyNone

\* A filterAcceptsRow that accepts a row as soon as one rule matches it.
filter_accepts_row_any(filters, source, source_row) ==
    Only({IF \E col \in DOMAIN res : res[col].err # ""
          THEN Raise(res[CHOOSE col \in DOMAIN res : res[col].err # ""].err)
          ELSE Ok(\E col \in DOMAIN res : res[col].val) :
            res \in {[col \in DOMAIN filters |->
                         Matches(filters[col], CellValue(source, source_row, col))]}})

\* ColumnFilterProxyModel.filterAcceptsRow: every rule matches its cell.
Proxy_filterAcceptsRow(filters, source, source_row) ==
    Only({IF \E col \in DOMAIN res : res[col].err # ""
          THEN Raise(res[CHOOSE col \in DOMAIN res : res[col].err # ""].err)
          ELSE Ok(\A col \in DOMAIN res : res[col].val) :
            res \in {[col \in DOMAIN filters |->
                         Matches(filters[col], CellValue(source, source_row, col))]}})

----------------------------------------------------------------------------
(* The patterns typed and the cells filtered, and the calls of the proxy *)

MaxPatternLen == 2      \* longest pattern made of any characters of FilterChars

\* Every text of these characters up to the length MaxPatternLen is a pattern.
FilterChars == {"1", ".", " ", "<", "=", "-", "t"}
ShortPatterns == SeqsUpTo(FilterChars, MaxPatternLen)

\* Operands and range sides that are numbers: 1, 2, 1.5, -1, 1,000
NumberTexts ==
    { <<"1">>,
      <<"2">>,
      <<"1", ".", "5">>,
      <<"-", "1">>,
      <<"1", ",", "0", "0", "0">> }

\* Operands and range sides written as dates: 2024-01-01, 2024-02-01,
\* 01/02/2024, 20240101 (a date for fromisoformat only), 2024-02-30 (no date)
DateTexts ==
    { <<"2", "0", "2", "4", "-", "0", "1", "-", "0", "1">>,
      <<"2", "0", "2", "4", "-", "0", "2", "-", "0", "1">>,
      <<"0", "1", "/", "0", "2", "/", "2", "0", "2", "4">>,
      <<"2", "0", "2", "4", "0", "1", "0", "1">>,
      <<"2", "0", "2", "4", "-", "0", "2", "-", "3", "0">> }

\* Operands that are neither, an exponent, a date with a time: x, total, 1e2,
\* 2024-01-01T10:00
OtherTexts ==
    { <<"x">>,
      <<"t", "o", "t", "a", "l">>,
      <<"1", "e", "2">>,
      <<"2", "0", "2", "4", "-", "0", "1", "-", "0", "1", "T", "1", "0", ":", "0", "0">> }

RangeSides == NumberTexts \cup DateTexts \cup {<<"x">>}
Operands == NumberTexts \cup DateTexts \cup OtherTexts

\* No prefix, and the prefixes that force dates: date: and dt: with a blank.
DatePrefixes == {<<>>, <<"d", "a", "t", "e", ":">>, <<"d", "t", ":", " ">>}

\* a .. b and a..b for all sides, in both orders, with and without a prefix.
RangePatterns ==
    {pre \o a \o dots \o b :
        pre \in {<<>>, <<"d", "a", "t", "e", ":">>}, a \in RangeSides, b \in RangeSides,
        dots \in {<<".", ".">>}}
    \cup {a \o <<" ", ".", ".", " ">> \o b : a \in NumberTexts, b \in NumberTexts}

\* An operator and an operand, with and without a blank and a prefix.
ComparePatterns ==
    {pre \o CmpOps[k] \o rhs :
        pre \in DatePrefixes, k \in DOMAIN CmpOps, rhs \in Operands}
    \cup {CmpOps[k] \o <<" ">> \o rhs : k \in DOMAIN CmpOps, rhs \in NumberTexts}

\* Regex patterns, words, and texts that only resemble a form.
PlainPatterns ==
    { <<"r", "e", ":", "a">>,
      <<"R", "E", ":", "^", "1">>,
      <<"r", "e", ":">>,
      <<"r", "e", ":", "1", ".", ".", "2">>,
      <<"r", "e", ":", "<", "1">>,
      <<"r", "e", ":", "5", "$">>,
      <<"a", "b", "c">>,
      <<"a">>,
      <<"d", "a", "t", "e", ":">>,
      <<"D", "a", "t", "e", ":", "2", "0", "2", "4", "-", "0", "1", "-", "0", "1">>,
      <<" ", "1", ".", "5", " ">>,
      <<"d", "t", ":", "x">>,
      <<"1", ".", ".", ".", "2">>,
      <<"1", ".", ".", "2", ".", ".", "3">>,
      <<"2", "0", "2", "4", "-", "0", "1", "-", "0", "1">>,
      <<"m", "a", "y", ".", ".", "x">>,
      <<"1", " ", "m", "a", "y", ".", ".", "x">> }

Patterns ==
    {PyNone} \cup {PyStr(p) : p \in ShortPatterns \cup RangePatterns \cup ComparePatterns
                                  \cup PlainPatterns}

\* The rows of the source model, of one column: None, numbers, words, dates.
CellTexts ==
    << <<>>,
       <<"1">>,
       <<"1", ".", "5">>,
       <<"2">>,
       <<"1", ",", "0", "0", "0">>,
       <<"-", "1">>,
       <<"a", "b", "c">>,
       <<"2", "0", "2", "4", "-", "0", "1", "-", "0", "1">>,
       <<"2", "0", "2", "4", "-", "0", "1", "-", "1", "5">>,
       <<"2", "0", "2", "4", "-", "0", "2", "-", "0", "1">>,
       <<"1", "3", "/", "0", "1", "/", "2", "0", "2", "4">>,
       <<"2", "0", "2", "4", "0", "1", "0", "1">>,
       <<"2", "0", "2", "4", "-", "0", "2", "-", "3", "0">> >>
SourceRows == <<<<PyNone>>>> \o [i \in DOMAIN CellTexts |-> <<PyStr(CellTexts[i])>>]

\* The proxy filters the columns 0 and 1; the source model has column 0 only.
Columns == {0, 1}

ProxyInit ==
    /\ CacheIdle
    /\ KeyIdle
    /\ BuildIdle
    /\ WinIdle
    /\ ThreadIdle
    /\ OvrIdle
    /\ pSource = SourceRows
    /\ pPattern \in Patterns
    /\ pFilters = EmptyDict
    /\ pRet = NoCall
    /\ pAccepts = <<>>

\* QSortFilterProxyModel.invalidateFilter: filterAcceptsRow is asked again for
\* every row of the source model.
InvalidateFilter(filters) ==
    [source_row \in DOMAIN pSource |-> Proxy_filterAcceptsRow(filters, pSource, source_row)]

\* ColumnFilterProxyModel.setColumnFilter(column, pattern)
SetColumnFilter(column) ==
    \E filters \in {Proxy_setColumnFilter(pFilters, column, pPattern)} :
       /\ pFilters' = filters
       /\ pAccepts' = InvalidateFilter(filters)
       /\ pRet' = [op |-> "setColumnFilter", column |-> column]
       /\ UNCHANGED <<pSource, pPattern, proxyOthers>>

\* ColumnFilterProxyModel.clearColumnFilter(column)
ClearColumnFilter(column) ==
    \E filters \in {DictPop(pFilters, column)} :
       /\ pFilters' = filters
       /\ pAccepts' = InvalidateFilter(filters)
       /\ pRet' = [op |-> "clearColumnFilter", column |-> column]
       /\ UNCHANGED <<pSource, pPattern, proxyOthers>>

\* ColumnFilterProxyModel.clearAllFilters()
ClearAllFilters ==
    /\ pFilters' = EmptyDict
    /\ pAccepts' = InvalidateFilter(EmptyDict)
    /\ pRet' = [op |-> "clearAllFilters", column |-> -1]
    /\ UNCHANGED <<pSource, pPattern, proxyOthers>>

ProxyNext ==
    \/ \E column \in Columns : SetColumnFilter(column)
    \/ \E column \in Columns : ClearColumnFilter(column)
    \/ ClearAllFilters

SpecProxy == ProxyInit /\ [][ProxyNext]_vars

----------------------------------------------------------------------------
(* ui/models.py: the proxy over two columns, a pattern given with each call *)

\* The rows of the source model: two columns of cells.
EditRows ==
    << <<PyStr(<<"1">>), PyStr(<<"a">>)>>,
       <<PyStr(<<"2">>), PyStr(<<"a", "b">>)>>,
       <<PyNone, PyStr(<<"b">>)>>,
       <<PyStr(<<"a">>), PyStr(<<"1">>)>>,
       <<PyStr(<<"3">>), PyNone>> >>

\* The columns the calls name: 0 and 1 are columns of the source model, 2 is
\* not.
EditColumns == {0, 1, 2}

\* The patterns the calls give: None, the empty text, blanks, and texts that
\* leave a substring, a comparison and a regex rule.
BlankPatterns == {PyNone, PyStr(<<>>), PyStr(<<" ">>), PyStr(<<" ", " ">>)}
EditPatterns ==
    BlankPatterns \cup
    {PyStr(<<"a">>), PyStr(<<" ", ">", "1">>), PyStr(<<"r", "e", ":", "^", "$">>)}

EditInit ==
    /\ CacheIdle
    /\ KeyIdle
    /\ BuildIdle
    /\ WinIdle
    /\ ThreadIdle
    /\ OvrIdle
    /\ pSource = EditRows
    /\ pPattern = PyNone
    /\ pFilters = EmptyDict
    /\ pRet = NoCall
    /\ pAccepts = <<>>

\* ColumnFilterProxyModel.setColumnFilter(column, pattern)
SetColumnFilterTo(column, pattern) ==
    \E filters \in {Proxy_setColumnFilter(pFilters, column, pattern)} :
       /\ pPattern' = pattern
       /\ pFilters' = filters
       /\ pAccepts' = InvalidateFilter(filters)
       /\ pRet' = [op |-> "setColumnFilter", column |-> column]
       /\ UNCHANGED <<pSource, proxyOthers>>

EditNext ==
    \/ \E column \in EditColumns, pattern \in EditPatterns : SetColumnFilterTo(column, pattern)
    \/ \E column \in EditColumns : ClearColumnFilter(column)
    \/ ClearAllFilters

SpecEdit == EditInit /\ [][EditNext]_vars

----------------------------------------------------------------------------
(* ui/main_window.py: MainWindow, its cache and what its table shows.  A      *)
(* DataFrame is identified by the fetch that made it: the DataFrame fetched   *)
(* after g loads of queries.json is ToString(g); its columns are left out.    *)
(* The contents of the filter form are the user's input, drawn at each Run.   *)

\* Two views that compile: the first has a disabled filter and a limit, so
\* that its SQL depends on the params and on the dialect of the connection.
WinViews ==
    << [id |-> "people",
        select |-> <<[kind |-> "column", expr |-> "name", alias |-> "name"]>>,
        from |-> <<[table |-> "people", alias |-> "p"]>>,
        filters |-> <<[id |-> "f1", where |-> <<"f1 = ?">>, enabled |-> FALSE]>>,
        limit |-> [rows |-> 1]],
       [id |-> "orders",
        select |-> <<[kind |-> "column", expr |-> "total", alias |-> "total"]>>,
        from |-> <<[table |-> "orders", alias |-> "o"]>>] >>

\* Views that cannot be compiled: a connection that is not configured, a
\* catalog expression that does not exist, an aggregate without arguments, a
\* select item of an unknown kind.
WinBrokenViews ==
    {[id |-> "broken",
      connection |-> "zz",
      select |-> <<[kind |-> "column", expr |-> "name", alias |-> "name"]>>,
      from |-> <<[table |-> "people", alias |-> "p"]>>,
      filters |-> <<[id |-> "f1", where |-> <<"f1 = ?">>, enabled |-> FALSE]>>]}
    \cup
    {[id |-> "broken", select |-> <<it>>, from |-> <<[table |-> "people", alias |-> "p"]>>,
      filters |-> <<[id |-> "f1", where |-> <<"f1 = ?">>, enabled |-> FALSE]>>] :
        it \in {[kind |-> "expr", ref |-> "missing", alias |-> "m"],
                [kind |-> "agg", func |-> "sum", alias |-> "s"],
                [kind |-> "window", alias |-> "x"]}}

\* The views.json the window starts with: the two views and a broken one.
WinViewLists == {Append(WinViews, b) : b \in WinBrokenViews}

\* What the user can pick in the "Open queries.json" dialog: two files that
\* differ in the default connection, and a file json.load fails on.
Unreadable == [unreadable |-> TRUE]
WinQueryFiles == {BuildCfg, [BuildCfg EXCEPT !.default_connection = "c2"], Unreadable}

\* What the user can pick in the "Open views.json" dialog: files that hold views.
WinViewFiles == {WinViews, <<WinViews[2]>>}

\* What collect_params reads from the form.
WinParams == {EmptyDict, [p \in {"f1"} |-> PyInt(5)]}

\* What collect_params can read from the form built for a view: the form has
\* fields only for the view's filters.
FormParams(view) == IF Has(view, "filters") THEN WinParams ELSE {EmptyDict}

\* What DataSource.fetch_df does: it returns a DataFrame or raises.
FetchOutcomes == {"rows", "error"}

\* The names a method of MainWindow can use unqualified: those the module
\* imports or defines at its top level (lines 4-21).  ConfigLoaderShim is
\* defined in the body of class MainWindow (line 416), which no method's name
\* lookup searches.
ModuleNames ==
    {"Qt", "QMainWindow", "QWidget", "QVBoxLayout", "QHBoxLayout", "QListWidget",
     "QListWidgetItem", "QLabel", "QSplitter", "QPushButton", "QFileDialog",
     "QMessageBox", "QTableView", "QStatusBar", "pd", "DataSource", "SQLBuilder",
     "Config", "DFCache", "FilterForm", "DataFrameModel", "ColumnFilterProxyModel",
     "PopupHeader", "MainWindow"}

\* line 389, ConfigLoaderShim(self._cfg.queries, path_or_dir): the name does
\* not resolve; were it to, line 422 calls the plain function stored on tmp
\* with one argument in place of two.
ConfigLoaderShim(queries, file) ==
    IF "ConfigLoaderShim" \notin ModuleNames
    THEN Raise("NameError: name 'ConfigLoaderShim' is not defined")
    ELSE Raise("TypeError: _load_views_any() missing 1 required positional argument")

\* Config.default_connection_name: the default_connection of queries.json,
\* else the name of its first connection.
DefaultConnectionName(queries) ==
    IF Has(queries, "default_connection") THEN queries.default_connection
    ELSE queries.connections[1].name

ConfiguredNames(queries) == {queries.connections[i].name : i \in DOMAIN queries.connections}

\* Config.get_connection_by_name
GetConnectionByName(queries, name) ==
    IF \E i \in DOMAIN queries.connections : queries.connections[i].name = name
    THEN Ok(queries.connections[CHOOSE i \in DOMAIN queries.connections :
                /\ queries.connections[i].name = name
                /\ \A j \in 1 .. (i - 1) : queries.connections[j].name # name])
    ELSE Raise("ConfigError: Unknown connection")

\* MainWindow._current_view_id
CurrentViewId == wViews[wCurrent].id

\* dict[col] = patt on the items of a dict: a column that has an item keeps
\* its place, a new one comes last.
SetItemAt(items, col, patt) ==
    IF \E i \in DOMAIN items : items[i].col = col
    THEN [i \in DOMAIN items |-> IF items[i].col = col THEN [col |-> col, patt |-> patt]
                                  ELSE items[i]]
    ELSE Append(items, [col |-> col, patt |-> patt])

\* dict.pop(col, None) on the items of a dict
PopItemAt(items, col) ==
    LET Other(it) == it.col # col
    IN SelectSeq(items, Other)

\* lines 305-306 and 458-459: setColumnFilter(col, patt) for each item in turn
RECURSIVE ApplyItems(_, _)
ApplyItems(filters, items) ==
    IF items = <<>> THEN filters
    ELSE ApplyItems(Proxy_setColumnFilter(filters, Head(items).col, Head(items).patt),
                    Tail(items))

\* MainWindow._current_filters: the items kept for the view, none when
\* setdefault makes its dict
CurrentFilters(vid) == Get(wColFilters, vid, <<>>)

\* A reapplication that leaves out self._proxy.clearAllFilters() of lines 302
\* and 457: the items are applied over the rules the proxy holds.
reapply_over_held_rules(vid) ==
    \E cur \in {CurrentFilters(vid)} :
    \E filters \in {ApplyItems(pFilters, cur)} :
       /\ wColFilters' = Update(wColFilters, [v \in {vid} |-> cur])
       /\ pFilters' = filters
       /\ pAccepts' = InvalidateFilter(filters)
       /\ pRet' = IF cur = <<>> THEN [op |-> "clearAllFilters", column |-> -1]
                  ELSE [op |-> "setColumnFilter", column |-> cur[Len(cur)].col]
       /\ UNCHANGED <<pSource, pPattern>>

\* The end of _set_table_df (lines 301-306) and of activate_view (lines
\* 456-459): the rules of the proxy are dropped, then the patterns kept for the
\* view are set again one by one.  The rows of a DataFrame are left out, so
\* the source model of the proxy has none.
ReapplyColumnFilters(vid) ==
    \E cur \in {CurrentFilters(vid)} :
    \E filters \in {ApplyItems(EmptyDict, cur)} :
       /\ wColFilters' = Update(wColFilters, [v \in {vid} |-> cur])
       /\ pFilters' = filters
       /\ pAccepts' = InvalidateFilter(filters)
       /\ pRet' = IF cur = <<>> THEN [op |-> "clearAllFilters", column |-> -1]
                  ELSE [op |-> "setColumnFilter", column |-> cur[Len(cur)].col]
       /\ UNCHANGED <<pSource, pPattern>>

\* MainWindow.__init__: the first view is selected and, no key being known for
\* it, _show_cached_or_empty clears the table; _set_table_df and activate_view
\* make the dict of the view's column filters and clear those of the proxy.
WinInit ==
    /\ \E cap \in 1 .. MaxCap : capacity = DFCache_init(cap)
    /\ store = <<>>
    /\ last = [op |-> "init", key |-> 0, ret |-> NoDF, evicted |-> {}]
    /\ clock = 0
    /\ lastAccess = NoAccess
    /\ insertedAt = NoAccess
    /\ wQueries = BuildCfg
    /\ wViews \in WinViewLists
    /\ wCurrent = 1
    /\ wLastKey = EmptyDict
    /\ wTable = EmptyDF
    /\ wGen = 0
    /\ wFormValues = EmptyDict
    /\ wColFilters = [v \in {wViews[1].id} |-> <<>>]
    /\ wOp = NoOp
    /\ pSource = <<>>
    /\ pPattern = <<>>
    /\ pFilters = EmptyDict
    /\ pRet = [op |-> "clearAllFilters", column |-> -1]
    /\ pAccepts = <<>>
    /\ ThreadIdle
    /\ OvrIdle
    /\ KeyIdle
    /\ BuildIdle

\* A Run that records the key as the view's last key before the fetch:
\* the assignment of line 280 moved above line 271.
run_sets_last_key_before_fetch(params, fetch) ==
    \E view \in {wViews[wCurrent]} :
    \E b \in {Build(wQueries, view, params).res} :
       /\ params \in FormParams(view)
       /\ wFormValues' = Update(wFormValues, [v \in {view.id} |-> params])
       /\ IF b.err # ""
          THEN /\ wOp' = [op |-> "run", err |-> b.err, loadable |-> FALSE, fetch |-> "none"]
               /\ UNCHANGED <<wViews, store, wQueries, wCurrent, wLastKey, wTable, wGen,
                               filterVars, winOthers>>
          ELSE \E key \in {make_key(<<view.id>>, b.sql, b.binds)} :
               \E got \in {DFCache_get(store, key)} :
               \E conn_cfg \in {GetConnectionByName(wQueries, b.conn_name)} :
                  IF got.ret # NoDF
                  THEN /\ store' = got.store
                       /\ wLastKey' = Update(wLastKey, [v \in {view.id} |-> key])
                       /\ wTable' = got.ret
                       /\ wOp' = [op |-> "run", err |-> "", loadable |-> FALSE, fetch |-> "none"]
                       /\ ReapplyColumnFilters(view.id)
                       /\ UNCHANGED <<wViews, wQueries, wCurrent, wGen, winOthers>>
                  ELSE IF conn_cfg.err # "" \/ fetch = "error"
                  THEN /\ store' = got.store
                       /\ wOp' = [op |-> "run",
                                  err |-> IF conn_cfg.err # "" THEN conn_cfg.err
                                          ELSE "fetch failed",
                                  loadable |-> FALSE,
                                  fetch |-> IF conn_cfg.err # "" THEN "none" ELSE "failed"]
                       /\ wLastKey' = Update(wLastKey, [v \in {view.id} |-> key])
                       /\ UNCHANGED <<wViews, wQueries, wCurrent, wTable, wGen,
                                       filterVars, winOthers>>
                  ELSE \E df \in {ToString(wGen)} :
                          /\ store' = DFCache_set(got.store, capacity, key, df)
                          /\ wLastKey' = Update(wLastKey, [v \in {view.id} |-> key])
                          /\ wTable' = df
                          /\ wOp' = [op |-> "run", err |-> "", loadable |-> FALSE, fetch |-> "ok"]
                          /\ ReapplyColumnFilters(view.id)
                          /\ UNCHANGED <<wViews, wQueries, wCurrent, wGen, winOthers>>

\* MainWindow._run_current_view: the params read from the form are saved for the
\* view, then a build error, a cache hit, a failed fetch or a fetch whose result
\* is cached and shown.
RunCurrentView(params, fetch) ==
    \E view \in {wViews[wCurrent]} :
    \E b \in {Build(wQueries, view, params).res} :
       /\ params \in FormParams(view)
       /\ wFormValues' = Update(wFormValues, [v \in {view.id} |-> params])
       /\ IF b.err # ""
          THEN /\ wOp' = [op |-> "run", err |-> b.err, loadable |-> FALSE, fetch |-> "none"]
               /\ UNCHANGED <<wViews, store, wQueries, wCurrent, wLastKey, wTable, wGen,
                               filterVars, winOthers>>
          ELSE \E key \in {make_key(<<view.id>>, b.sql, b.binds)} :
               \E got \in {DFCache_get(store, key)} :
               \E conn_cfg \in {GetConnectionByName(wQueries, b.conn_name)} :
                  IF got.ret # NoDF
                  THEN /\ store' = got.store
                       /\ wLastKey' = Update(wLastKey, [v \in {view.id} |-> key])
                       /\ wTable' = got.ret
                       /\ wOp' = [op |-> "run", err |-> "", loadable |-> FALSE, fetch |-> "none"]
                       /\ ReapplyColumnFilters(view.id)
                       /\ UNCHANGED <<wViews, wQueries, wCurrent, wGen, winOthers>>
                  ELSE IF conn_cfg.err # "" \/ fetch = "error"
                  THEN /\ store' = got.store
                       /\ wOp' = [op |-> "run",
                                  err |-> IF conn_cfg.err # "" THEN conn_cfg.err
                                          ELSE "fetch failed",
                                  loadable |-> FALSE,
                                  fetch |-> IF conn_cfg.err # "" THEN "none" ELSE "failed"]
                       /\ UNCHANGED <<wViews, wQueries, wCurrent, wLastKey, wTable, wGen,
                                       filterVars, winOthers>>
                  ELSE \E df \in {ToString(wGen)} :
                          /\ store' = DFCache_set(got.store, capacity, key, df)
                          /\ wLastKey' = Update(wLastKey, [v \in {view.id} |-> key])
                          /\ wTable' = df
                          /\ wOp' = [op |-> "run", err |-> "", loadable |-> FALSE, fetch |-> "ok"]
                          /\ ReapplyColumnFilters(view.id)
                          /\ UNCHANGED <<wViews, wQueries, wCurrent, wGen, winOthers>>

\* MainWindow._on_selection_changed with _show_cached_or_empty and
\* activate_view: the view's last result when it is still cached, else the
\* empty table, under the column filters kept for the view.
SelectView(row, params) ==
    LET vid == wViews[row].id
        got == DFCache_get(store, Get(wLastKey, vid, NoKey))
    IN /\ row # wCurrent
       /\ params \in FormParams(wViews[wCurrent])
       /\ wFormValues' = Update(wFormValues, [v \in {CurrentViewId} |-> params])
       /\ wCurrent' = row
       /\ IF Has(wLastKey, vid)
          THEN /\ store' = got.store
               /\ wTable' = IF got.ret # NoDF THEN got.ret ELSE EmptyDF
          ELSE /\ store' = store
               /\ wTable' = EmptyDF
       /\ wOp' = [op |-> "select", err |-> "", loadable |-> FALSE, fetch |-> "none"]
       /\ ReapplyColumnFilters(vid)
       /\ UNCHANGED <<wViews, wQueries, wLastKey, wGen, winOthers>>

\* MainWindow._on_double_click with _try_show_cached_current and activate_view:
\* the view's last result when it is still cached, else the table as it is,
\* under the column filters kept for the view.
DoubleClick ==
    LET vid == CurrentViewId
        got == DFCache_get(store, Get(wLastKey, vid, NoKey))
    IN /\ IF Has(wLastKey, vid)
          THEN /\ store' = got.store
               /\ wTable' = IF got.ret # NoDF THEN got.ret ELSE wTable
          ELSE UNCHANGED <<store, wTable>>
       /\ wOp' = [op |-> "double_click", err |-> "", loadable |-> FALSE, fetch |-> "none"]
       /\ ReapplyColumnFilters(vid)
       /\ UNCHANGED <<wViews, wQueries, wCurrent, wLastKey, wGen, wFormValues, winOthers>>

\* MainWindow._open_cfg on the file the user picked: the queries are replaced,
\* the cache and the last keys are cleared; the table is not touched.
OpenCfg(file) ==
    /\ wGen < MaxReloads
    /\ IF file = Unreadable
       THEN /\ wOp' = [op |-> "open_cfg", err |-> "Failed to load config", loadable |-> FALSE, fetch |-> "none"]
            /\ UNCHANGED <<store, wQueries, wLastKey, wGen>>
       ELSE /\ wQueries' = file
            /\ store' = DFCache_clear(store)
            /\ wLastKey' = EmptyDict
            /\ wGen' = wGen + 1
            /\ wOp' = [op |-> "open_cfg", err |-> "", loadable |-> TRUE, fetch |-> "none"]
    /\ UNCHANGED <<wViews, wCurrent, wTable, wFormValues, filterVars, winOthers>>

\* MainWindow._open_views with _reload_views_from on the file the user picked:
\* line 389 raises, the except clause of line 412 reports it, and lines 390-411
\* (new views, cache and last keys cleared) are not reached.
ReloadViewsFrom(file) ==
    LET loader == ConfigLoaderShim(wQueries, file)
    IN /\ loader.err # ""
       /\ wOp' = [op |-> "reload_views", err |-> loader.err, loadable |-> TRUE, fetch |-> "none"]
       /\ UNCHANGED <<wViews, store, wQueries, wCurrent, wLastKey, wTable, wGen, wFormValues,
                       filterVars, winOthers>>

WinNext ==
    \/ \E params \in WinParams, fetch \in FetchOutcomes : RunCurrentView(params, fetch)
    \/ \E row \in DOMAIN wViews, params \in WinParams : SelectView(row, params)
    \/ DoubleClick
    \/ \E file \in WinQueryFiles : OpenCfg(file)
    \/ \E file \in WinViewFiles : ReloadViewsFrom(file)

SpecWin == WinInit /\ [][WinNext]_vars

----------------------------------------------------------------------------
(* ui/main_window.py: the column filters set from the header of the table *)

\* The sections of the header the user can right-click, and the texts the
\* editor of a section can hold: nothing, a blank, a word.
HeaderColumns == {0, 1}
HeaderTexts == {PyStr(<<>>), PyStr(<<" ">>), PyStr(<<"a">>)}

\* PopupHeader._on_context_menu, line 52-54: the menu opens on a section of the
\* header, and the empty table has none.
HasHeaderSection == wTable # EmptyDF

\* MainWindow._on_set_column_filter, reached from the editor of the section
\* (Enter) and from "Clear column filter", which gives the text "".
OnSetColumnFilter(col, text) ==
    \E cur \in {CurrentFilters(CurrentViewId)} :
    \E filters \in {Proxy_setColumnFilter(pFilters, col, text)} :
       /\ HasHeaderSection
       /\ wColFilters' = Update(wColFilters,
                                [v \in {CurrentViewId} |->
                                    IF text.s = <<>> THEN PopItemAt(cur, col)
                                    ELSE SetItemAt(cur, col, text)])
       /\ pPattern' = text
       /\ pFilters' = filters
       /\ pAccepts' = InvalidateFilter(filters)
       /\ pRet' = [op |-> "setColumnFilter", column |-> col]
       /\ wOp' = [op |-> "set_column_filter", err |-> "", loadable |-> FALSE, fetch |-> "none"]
       /\ UNCHANGED <<store, wQueries, wViews, wCurrent, wLastKey, wTable, wGen, wFormValues,
                       pSource, winOthers>>

\* MainWindow._on_clear_all_filters, reached from "Clear all filters"
OnClearAllFilters ==
    /\ HasHeaderSection
    /\ wColFilters' = Update(wColFilters, [v \in {CurrentViewId} |-> <<>>])
    /\ pFilters' = EmptyDict
    /\ pAccepts' = InvalidateFilter(EmptyDict)
    /\ pRet' = [op |-> "clearAllFilters", column |-> -1]
    /\ wOp' = [op |-> "clear_all_filters", err |-> "", loadable |-> FALSE, fetch |-> "none"]
    /\ UNCHANGED <<store, wQueries, wViews, wCurrent, wLastKey, wTable, wGen, wFormValues,
                    pSource, pPattern, winOthers>>

\* The window with a cache of MaxCap results, the third of its views being
\* the one whose connection is not configured.
FiltInit ==
    /\ WinInit
    /\ capacity = DFCache_init(MaxCap)
    /\ Has(wViews[3], "connection")

\* The window with the queries.json it starts with and the form left empty:
\* views are selected and run, and their columns are filtered from the header.
FiltNext ==
    \/ \E fetch \in FetchOutcomes : RunCurrentView(EmptyDict, fetch)
    \/ \E row \in DOMAIN wViews : SelectView(row, EmptyDict)
    \/ DoubleClick
    \/ \E col \in HeaderColumns, text \in HeaderTexts : OnSetColumnFilter(col, text)
    \/ OnClearAllFilters

SpecFilt == FiltInit /\ [][FiltNext]_vars

----------------------------------------------------------------------------
(* core/sqlbuilder.py: _apply_overrides on views that carry an override *)

MaxOvr == 2             \* items an override lists under filters or select, at most

\* The filters a base view declares; two of them share the id f1.
OvrBaseFilters ==
    {[id |-> "f1", where |-> <<"a = ?">>, enabled |-> FALSE],
     [id |-> "f2", where |-> <<"b = ?">>, clause |-> "HAVING"],
     [id |-> "f1", where |-> <<"c = ?">>, default |-> PyInt(1)]}

\* The filters an override lists: two patches of f1 and two filters of its own.
OvrPatchFilters ==
    {[id |-> "f1", enabled |-> TRUE],
     [id |-> "f1", where |-> <<"a > ?">>, default |-> PyInt(3)],
     [id |-> "fx", where |-> <<"x = ?">>, enabled |-> TRUE],
     [id |-> "fy", where |-> <<"y = ?">>, clause |-> "HAVING"]}

\* The select items a base view declares; two of them share the alias name.
OvrBaseSelect ==
    {[kind |-> "column", expr |-> "name", alias |-> "name"],
     [kind |-> "column", expr |-> "p.id", alias |-> "id"],
     [kind |-> "column", expr |-> "p.nick", alias |-> "name", label |-> "Nick"]}

\* The select items an override lists: two patches of name and two items of
\* its own.
OvrPatchSelect ==
    {[alias |-> "name", expr |-> "UPPER(name)"],
     [alias |-> "name", label |-> "Name"],
     [kind |-> "column", expr |-> "extra", alias |-> "extra"],
     [kind |-> "agg", func |-> "count", args |-> <<"p.id">>, alias |-> "n"]}

OvrViewBase == [id |-> "people", from |-> <<[table |-> "people", alias |-> "p"]>>]

\* Views whose override for d1 lists filters.
OvrFilterViews ==
    {OvrViewBase @@ [select |-> <<[kind |-> "column", expr |-> "name", alias |-> "name"]>>]
        @@ f @@ [overrides |-> [d1 |-> [filters |-> ofs]]] :
        f \in {IF fs = <<>> THEN EmptyDict ELSE [filters |-> fs] :
                  fs \in SeqsUpTo(OvrBaseFilters, MaxFilters)},
        ofs \in SeqsUpTo(OvrPatchFilters, MaxOvr)}

\* Views whose override for d1 lists select items, with or without a mode.
OvrSelectViews ==
    {OvrViewBase @@ [select |-> sel] @@ [overrides |-> [d1 |-> [select |-> os] @@ m]] :
        sel \in SeqsUpTo(OvrBaseSelect, 2) \ {<<>>},
        os \in SeqsUpTo(OvrPatchSelect, MaxOvr),
        m \in {EmptyDict, [select_mode |-> "merge"], [select_mode |-> "replace"]}}

OvrInit ==
    /\ oView \in OvrFilterViews \cup OvrSelectViews
    /\ oDialect \in {"d1", "d2"}
    /\ oEff = NotApplied
    /\ CacheIdle
    /\ KeyIdle
    /\ BuildIdle
    /\ WinIdle
    /\ ProxyIdle
    /\ ThreadIdle

\* v = self._apply_overrides(view, dialect)
ApplyCall ==
    /\ ~oEff.called
    /\ oEff' = ApplyOverrides(oView, oDialect) @@ [called |-> TRUE]
    /\ UNCHANGED <<oView, oDialect, ovrOthers>>

OvrNext == ApplyCall

SpecOvr == OvrInit /\ [][OvrNext]_vars

----------------------------------------------------------------------------
(* Claims about the override merge, checked under SpecOvr *)

\* The override of the dialect the call was made for ({} when there is none).
OvrOf == Get(Get(oView, "overrides", EmptyDict), oDialect, EmptyDict)

BaseFilters == Get(oView, "filters", <<>>)
PatchFilters == Get(OvrOf, "filters", <<>>)
EffFilterList == Get(oEff.v, "filters", <<>>)

\* The override filters that carry the id of f, by position.
PatchesOf(f) == {j \in DOMAIN PatchFilters : PatchFilters[j].id = f.id}

\* The dict d with the fields of p on top: every key of either, p's value
\* where p has the key.
OnTop(d, p) == [k \in DOMAIN d \cup DOMAIN p |-> IF k \in DOMAIN p THEN p[k] ELSE d[k]]

\* The override filters whose id no base filter carries, in override order.
NewFilters ==
    SelectSeq(PatchFilters, LAMBDA of : \A i \in DOMAIN BaseFilters : BaseFilters[i].id # of.id)

\* C21: the effective filters are the base filters in their order, each with
\* the fields of the override filter of the same id on top (the first one of
\* that id when the override lists several) and unchanged when the override
\* has none, followed by the override filters whose id no base filter
\* carries, in override order; without filters in the override the base
\* filters stay as they are.
C21_FilterMerge ==
    oEff.called =>
        IF Has(OvrOf, "filters")
        THEN /\ Len(EffFilterList) = Len(BaseFilters) + Len(NewFilters)
             /\ \A i \in DOMAIN BaseFilters :
                   EffFilterList[i] =
                       IF PatchesOf(BaseFilters[i]) = {} THEN BaseFilters[i]
                       ELSE OnTop(BaseFilters[i],
                                  PatchFilters[CHOOSE j \in PatchesOf(BaseFilters[i]) :
                                                  \A k \in PatchesOf(BaseFilters[i]) : j <= k])
             /\ SubSeq(EffFilterList, Len(BaseFilters) + 1, Len(EffFilterList)) = NewFilters
        ELSE EffFilterList = BaseFilters

\* A merge that patches the second base filter on a field both carry, leaves
\* the first one alone and appends a filter of the override.
C21_Witness ==
    /\ oEff.called
    /\ Len(BaseFilters) = 2
    /\ PatchesOf(BaseFilters[1]) = {}
    /\ \E j \in PatchesOf(BaseFilters[2]) :
          "where" \in DOMAIN PatchFilters[j] /\ PatchFilters[j].where # BaseFilters[2].where
    /\ EffFilterList[2] # BaseFilters[2]
    /\ Len(NewFilters) = 1
    /\ Len(EffFilterList) = 3

BaseSelect == Get(oView, "select", <<>>)
PatchSelect == Get(OvrOf, "select", <<>>)
EffSelect == Get(oEff.v, "select", <<>>)

\* The override select items whose alias no base item carries, in override order.
NewSelect ==
    SelectSeq(PatchSelect, LAMBDA s : \A i \in DOMAIN BaseSelect : BaseSelect[i].alias # s.alias)

\* The base item the override items of alias a update: the last one of that
\* alias, when several base items share it.
UpdatedAt(i) ==
    \A j \in DOMAIN BaseSelect : BaseSelect[j].alias = BaseSelect[i].alias => j <= i

\* The item with the fields of the first k override items of its alias on
\* top, one after the other.
RECURSIVE PatchedBy(_, _)
PatchedBy(item, k) ==
    IF k = 0 THEN item
    ELSE IF PatchSelect[k].alias = item.alias
    THEN OnTop(PatchedBy(item, k - 1), PatchSelect[k])
    ELSE PatchedBy(item, k - 1)

\* C22: with select_mode replace the effective select list is the override
\* list; otherwise the base items keep their positions, the base item an
\* override item names by alias carries that item's fields on top, the other
\* base items are unchanged, and the override items whose alias no base item
\* carries follow the base items in override order; without select in the
\* override the base list stays as it is.
C22_SelectMerge ==
    oEff.called =>
        IF ~Has(OvrOf, "select") THEN EffSelect = BaseSelect
        ELSE IF Get(OvrOf, "select_mode", "merge") = "replace" THEN EffSelect = PatchSelect
        ELSE /\ Len(EffSelect) = Len(BaseSelect) + Len(NewSelect)
             /\ \A i \in DOMAIN BaseSelect :
                   EffSelect[i] = IF UpdatedAt(i)
                                  THEN PatchedBy(BaseSelect[i], Len(PatchSelect))
                                  ELSE BaseSelect[i]
             /\ SubSeq(EffSelect, Len(BaseSelect) + 1, Len(EffSelect)) = NewSelect

\* A merge by alias that updates the first of two base items, leaves the
\* second alone and appends an item of the override.
C22_Witness ==
    /\ oEff.called
    /\ Has(OvrOf, "select") /\ Get(OvrOf, "select_mode", "merge") = "merge"
    /\ Len(BaseSelect) = 2 /\ Len(PatchSelect) = 2
    /\ EffSelect[1] # BaseSelect[1]
    /\ EffSelect[1].alias = BaseSelect[1].alias
    /\ EffSelect[2] = BaseSelect[2]
    /\ Len(EffSelect) = 3

\* A call with select_mode replace on a view whose base list differs from
\* the override list.
C22_WitnessReplace ==
    /\ oEff.called
    /\ Get(OvrOf, "select_mode", "merge") = "replace"
    /\ Len(PatchSelect) = 2
    /\ EffSelect # BaseSelect

----------------------------------------------------------------------------
(* Claims about the main window's cache handling, checked under SpecWin *)

\* The last handler was a reload of the queries or of the views from a file
\* that can be loaded.
Reloaded == wOp.op \in {"open_cfg", "reload_views"} /\ wOp.loadable

\* C4: when the user has reloaded the queries (_open_cfg) or the views
\* (_open_views) from a loadable file, the cache is empty and no view has a
\* last key, so that no lookup returns a result fetched before the reload.
C4_ReloadClearsCache ==
    Reloaded => (store = <<>> /\ wLastKey = EmptyDict)

\* What makes the compilation of a view fail under the queries: a connection
\* that is not configured, a select item that names no catalog expression, an
\* aggregate without arguments, a select item of an unknown kind.
CompileDefect(view, queries) ==
    \/ Get(view, "connection", Get(queries, "default_connection", NoName))
          \notin ConfiguredNames(queries)
    \/ \E i \in DOMAIN view.select :
          LET it == view.select[i]
              kind == Get(it, "kind", "")
          IN \/ kind = "expr"
                /\ it.ref \notin DOMAIN Get(Get(queries, "catalog", EmptyDict),
                                            "expressions", EmptyDict)
             \/ kind = "agg" /\ Get(it, "args", <<>>) = <<>>
             \/ kind \notin {"column", "expr", "agg"}

\* The step is a Run on a view that cannot be compiled.
DefectiveRun == wOp'.op = "run" /\ CompileDefect(wViews[wCurrent], wQueries)

\* The form values saved for a view, a view without saved values reading as
\* one with empty values (_restore_form_values treats them alike).
SavedValues(fv, vid) == Get(fv, vid, EmptyDict)

WinViewIds == {wViews[i].id : i \in DOMAIN wViews}

\* C15 as stated: a Run on a view that cannot be compiled ends in an error and
\* leaves the cache, the last keys, the table and the values saved for every
\* view as they were.
C15_FailedRunChangesNothing ==
    [][ DefectiveRun =>
           /\ wOp'.err # ""
           /\ UNCHANGED <<store, wLastKey, wTable, wQueries, wCurrent>>
           /\ \A vid \in WinViewIds :
                 SavedValues(wFormValues', vid) = SavedValues(wFormValues, vid) ]_vars

\* C15: a Run on a view that cannot be compiled ends in an error and leaves the
\* cache, the last keys, the table, the queries and the selection as they were;
\* of the saved form values only those of the current view can change.
C15_FailedRunKeepsCache ==
    [][ DefectiveRun =>
           /\ wOp'.err # ""
           /\ UNCHANGED <<store, wLastKey, wTable, wQueries, wCurrent>>
           /\ \A vid \in WinViewIds \ {CurrentViewId} :
                 SavedValues(wFormValues', vid) = SavedValues(wFormValues, vid) ]_vars

\* A Run failed to compile while the cache held a result and a view had a
\* last key; the values it read from the form were saved.
C15_Witness ==
    /\ wOp.op = "run" /\ wOp.err # ""
    /\ CompileDefect(wViews[wCurrent], wQueries)
    /\ store # <<>> /\ wLastKey # EmptyDict
    /\ SavedValues(wFormValues, CurrentViewId) # EmptyDict

\* The step is a Run; the key the Run computed is the view's last key after a
\* Run that showed a result.
IsRun == wOp'.op = "run"
RunShown == IsRun /\ wOp'.err = ""
RunKey == wLastKey'[CurrentViewId]

\* C25: a Run makes a key resident only when the key was not cached and the
\* fetch it made succeeded; a Run whose key is cached makes no fetch and
\* leaves the cached keys as they are; a Run whose fetch fails leaves the
\* cache and the last key of every view as they are.
C25_CachedOnlyAfterFetch ==
    [][IsRun =>
          /\ Keys(store') \ Keys(store) # {} =>
                /\ wOp'.fetch = "ok" /\ wOp'.err = ""
                /\ Keys(store') \ Keys(store) = {RunKey}
          /\ (RunShown /\ RunKey \in Keys(store)) =>
                /\ wOp'.fetch = "none"
                /\ Keys(store') = Keys(store)
          /\ (RunShown /\ RunKey \notin Keys(store)) =>
                /\ wOp'.fetch = "ok"
                /\ RunKey \in Keys(store')
          /\ wOp'.fetch = "failed" =>
                /\ wOp'.err # ""
                /\ store' = store
                /\ wLastKey' = wLastKey]_vars

\* A Run hit the cache: it made no fetch and its key is the most recently
\* used of the cache.
C25_Witness ==
    /\ wOp.op = "run" /\ wOp.err = "" /\ wOp.fetch = "none"
    /\ Len(store) >= 1
    /\ store[Len(store)].key = wLastKey[CurrentViewId]

\* A Run's fetch failed while the cache held a result and the view had a last
\* key.
C25_WitnessFailedFetch ==
    /\ wOp.op = "run" /\ wOp.fetch = "failed"
    /\ Len(store) >= 1
    /\ Has(wLastKey, CurrentViewId)

----------------------------------------------------------------------------
(* Claims about the column filters of the window, checked under SpecFilt *)

\* The patterns kept for a view: column -> the text kept for it.
StoredPatterns(colFilters, vid) ==
    LET items == Get(colFilters, vid, <<>>)
    IN [c \in {items[i].col : i \in DOMAIN items} |->
           items[CHOOSE i \in DOMAIN items : items[i].col = c].patt]

\* The rules the patterns kept for a view stand for: a rule for each column
\* whose pattern has one.
DerivedRules(vid) ==
    LET stored == StoredPatterns(wColFilters, vid)
    IN [c \in {d \in DOMAIN stored : RuleOf(stored[d]) # NoRule} |-> RuleOf(stored[c])]

\* A step of _on_set_column_filter or of _on_clear_all_filters
IsFilterEdit ==
    \/ \E col \in HeaderColumns, text \in HeaderTexts : OnSetColumnFilter(col, text)
    \/ OnClearAllFilters

\* The views other than the current one keep their patterns through the step.
OtherViewsKept ==
    \A vid \in DOMAIN wColFilters \ {CurrentViewId} :
       StoredPatterns(wColFilters', vid) = StoredPatterns(wColFilters, vid)

\* C27: after any sequence of view selections, column-filter edits,
\* clear-all-filters actions and Runs, the rules active in the proxy are exactly
\* those derived from the patterns stored for the currently selected view, and
\* an edit or a clear-all changes only the stored patterns of the current view.
C27_FiltersOfCurrentViewOnly ==
    /\ [](pFilters = DerivedRules(CurrentViewId))
    /\ [][IsFilterEdit => OtherViewsKept /\ wCurrent' = wCurrent]_vars

\* C27 happens: the user is back on a view by a selection, the proxy holds the
\* rule of its pattern, and another view keeps a pattern that stands for
\* another rule.
C27_Witness ==
    /\ wOp.op = "select"
    /\ pFilters # EmptyDict
    /\ \E vid \in DOMAIN wColFilters \ {CurrentViewId} :
          /\ DerivedRules(vid) # EmptyDict
          /\ DerivedRules(vid) # pFilters

\* C27 happens on a pattern without rule: the current view keeps a blank
\* pattern, the proxy holds no rule, and another view keeps a pattern with one.
C27_WitnessBlank ==
    /\ wOp.op = "run"
    /\ \E c \in DOMAIN StoredPatterns(wColFilters, CurrentViewId) :
          StoredPatterns(wColFilters, CurrentViewId)[c] = PyStr(<<" ">>)
    /\ pFilters = EmptyDict
    /\ \E vid \in DOMAIN wColFilters \ {CurrentViewId} : DerivedRules(vid) # EmptyDict

----------------------------------------------------------------------------
(* Claims about SQLBuilder.build, checked under SpecBuild *)

\* The last build call returned (it did not raise).
Built == bResult # NoResult /\ bResult.err = ""

\* The filters of the effective view: the view's filters with the override of
\* the connection's dialect merged in.
EffFilters ==
    LET conn == GetConnection(bCfg, Get(bView, "connection",
                                        Get(bCfg, "default_connection", NoName)))
    IN Get(Overridden(bView, conn.val.dialect), "filters", <<>>)

Enabled(f) == Get(f, "enabled", FALSE)
Supplied(f) == \E i \in DOMAIN Pids(f) : Pids(f)[i] \in DOMAIN bParams

\* The parenthesised condition of filter f stands in the text.
Appears(f, sql) ==
    \E i \in DOMAIN sql :
        /\ i + 2 <= Len(sql)
        /\ sql[i] = "(" /\ <<sql[i + 1]>> = f.where /\ sql[i + 2] = ")"

\* The part of the text from its first token w on (empty when w is not in it).
From(sql, w) ==
    IF \E i \in DOMAIN sql : sql[i] = w
    THEN SubSeq(sql, CHOOSE i \in DOMAIN sql : sql[i] = w /\ \A j \in 1 .. (i - 1) : sql[j] # w,
                Len(sql))
    ELSE <<>>

\* The filter's condition stands in the WHERE or the HAVING clause of the SQL.
Shown(f) ==
    /\ Has(f, "where")
    /\ Appears(f, From(bResult.sql, IF ClauseOf(f) = "having" THEN "HAVING " ELSE "WHERE "))

RECURSIVE SumSeq(_)
SumSeq(ns) == IF ns = <<>> THEN 0 ELSE Head(ns) + SumSeq(Tail(ns))

\* The number of parameter ids of the filters of fs that satisfy P.
SumLen(fs, P(_)) ==
    SumSeq([i \in DOMAIN fs |-> IF P(fs[i]) THEN Len(Pids(fs[i])) ELSE 0])

\* Where the binds of the k-th effective filter start in the bind list, given
\* that the shown filters own one bind per parameter id: after the binds of the
\* shown WHERE filters declared before it and, for a HAVING filter, after those
\* of all the shown WHERE filters and of the shown HAVING filters before it.
Offset(k) ==
    LET fs == EffFilters
        isWhere(f) == Shown(f) /\ ClauseOf(f) # "having"
        isHaving(f) == Shown(f) /\ ClauseOf(f) = "having"
    IN IF ClauseOf(fs[k]) = "having"
       THEN SumLen(fs, isWhere) + SumLen(SubSeq(fs, 1, k - 1), isHaving)
       ELSE SumLen(SubSeq(fs, 1, k - 1), isWhere)

\* The binds of the k-th effective filter, a shown one.
Segment(k) ==
    SubSeq(bResult.binds, Offset(k) + 1, Offset(k) + Len(Pids(EffFilters[k])))

\* The binds at the parameter ids that params holds are the params' values.
SegmentCarriesParams(k) ==
    LET f == EffFilters[k]
    IN /\ Offset(k) + Len(Pids(f)) <= Len(bResult.binds)
       /\ \A i \in DOMAIN Pids(f) :
             Pids(f)[i] \in DOMAIN bParams => Segment(k)[i] = bParams[Pids(f)[i]]

C7_FilterActivation ==
    Built =>
        /\ \A k \in DOMAIN EffFilters :
              LET f == EffFilters[k]
              IN /\ Shown(f) => (Enabled(f) \/ Supplied(f))
                 /\ (~Enabled(f) /\ ~Supplied(f)) => ~Shown(f)
                 /\ (~Enabled(f) /\ Supplied(f)) => (Shown(f) /\ SegmentCarriesParams(k))
        /\ Len(bResult.binds) = SumLen(EffFilters, Shown)

\* A disabled filter was activated by params next to a disabled one that was not.
C7_Witness ==
    /\ Built
    /\ \E k \in DOMAIN EffFilters :
          ~Enabled(EffFilters[k]) /\ Supplied(EffFilters[k]) /\ Shown(EffFilters[k])
    /\ \E k \in DOMAIN EffFilters :
          ~Enabled(EffFilters[k]) /\ ~Supplied(EffFilters[k]) /\ ~Shown(EffFilters[k])

\* Every parameter of f resolves to null: params holds none of them and the
\* default gives none (lines 166-173).
Unresolved(f) ==
    \A i \in DOMAIN Pids(f) : ResolvedValue(f, bParams, Pids(f)[i]) = PyNone

\* C8: a filter all of whose resolved values are null adds no condition to WHERE
\* or HAVING and no bind, enabled or not: the binds are those of the other filters.
C8_AllNullSkipped ==
    Built =>
        /\ \A k \in DOMAIN EffFilters : Unresolved(EffFilters[k]) => ~Shown(EffFilters[k])
        /\ Len(bResult.binds) = SumLen(EffFilters, LAMBDA f : ~Unresolved(f) /\ Shown(f))

\* An enabled filter with only null values was skipped while another filter
\* contributed.
C8_Witness ==
    /\ Built
    /\ \E k \in DOMAIN EffFilters :
          Enabled(EffFilters[k]) /\ Unresolved(EffFilters[k]) /\ ~Shown(EffFilters[k])
    /\ \E k \in DOMAIN EffFilters : Shown(EffFilters[k])

\* C9: every bind of a contributing filter is the resolved value of its parameter
\* id: the runtime value, else the default looked up per id in a mapping, else
\* the scalar default of a one-parameter filter, else null.
C9_BindsAreResolvedValues ==
    Built =>
        \A k \in DOMAIN EffFilters :
            Shown(EffFilters[k]) =>
                /\ Offset(k) + Len(Pids(EffFilters[k])) <= Len(bResult.binds)
                /\ Segment(k) = ResolvedValues(EffFilters[k], bParams)

\* The filter contributes: it is enabled or supplied, and not all its values are null.
Contributing(f) == (Enabled(f) \/ Supplied(f)) /\ ~Unresolved(f)

\* C10: the bind list holds one bind per parameter id of every contributing
\* filter and none of any other filter, and the binds of a filter stand in
\* param_order order: those of the ids that params holds are the params' values.
C10_BindsAligned ==
    Built =>
        /\ Len(bResult.binds) = SumLen(EffFilters, Contributing)
        /\ \A k \in DOMAIN EffFilters :
              /\ Contributing(EffFilters[k]) <=> Shown(EffFilters[k])
              /\ Shown(EffFilters[k]) => SegmentCarriesParams(k)

\* Two filters contributed, one with two parameter ids, and a null bind was kept.
C10_Witness ==
    /\ Built
    /\ Cardinality({k \in DOMAIN EffFilters : Shown(EffFilters[k])}) >= 2
    /\ \E k \in DOMAIN EffFilters : Shown(EffFilters[k]) /\ Len(Pids(EffFilters[k])) = 2
    /\ \E i \in DOMAIN bResult.binds : bResult.binds[i] = PyNone

----------------------------------------------------------------------------
(* Claims about the assembly of the SQL text, checked under SpecSql *)

\* Where the token w first stands in the SQL of the last build (0: nowhere).
Pos(w) ==
    IF \E i \in DOMAIN bResult.sql : bResult.sql[i] = w
    THEN CHOOSE i \in DOMAIN bResult.sql :
            bResult.sql[i] = w /\ \A j \in 1 .. (i - 1) : bResult.sql[j] # w
    ELSE 0

Count(w) == Cardinality({i \in DOMAIN bResult.sql : bResult.sql[i] = w})

\* The dialect of the connection the view resolves to and its limit style.
ActiveDialect ==
    GetConnection(bCfg, Get(bView, "connection", Get(bCfg, "default_connection", NoName))).val.dialect

LimitStyle == bCfg.dialects[ActiveDialect].limit.style

HasLimit == Has(bView, "limit")

\* The first token of the limit suffix the dialects of SqlCfgBase write.
SuffixWords == {"LIMIT ", "FETCH FIRST "}

\* The words that open the clauses, in the order the claim gives them; the
\* last stands for the limit suffix, whichever its first token is.
ClauseWords == <<"SELECT ", " FROM ", "WHERE ", "GROUP BY ", "HAVING ", "ORDER BY ", "suffix">>

ClausePos(k) ==
    IF k = 7
    THEN IF \E w \in SuffixWords : Pos(w) > 0
         THEN Pos(CHOOSE w \in SuffixWords : Pos(w) > 0) ELSE 0
    ELSE Pos(ClauseWords[k])

\* What the view and the params ask of each clause: whether it has content.
ClauseWanted(k) ==
    CASE k = 1 -> TRUE
      [] k = 2 -> TRUE
      [] k = 3 -> \E i \in DOMAIN EffFilters :
                     Contributing(EffFilters[i]) /\ ClauseOf(EffFilters[i]) # "having"
      [] k = 4 -> Get(bView, "group_by", <<>>) # <<>>
      [] k = 5 -> \E i \in DOMAIN EffFilters :
                     Contributing(EffFilters[i]) /\ ClauseOf(EffFilters[i]) = "having"
      [] k = 6 -> Get(bView, "order_by", <<>>) # <<>>
      [] k = 7 -> HasLimit /\ LimitStyle \in {"limit", "fetch_first"}

\* C11: the SQL opens with SELECT; FROM with its joins, WHERE, GROUP BY,
\* HAVING, ORDER BY and the limit suffix follow in this order, each at most
\* once; a clause with no content leaves nothing in the text, neither its
\* word nor a separator.
C11_ClauseOrder ==
    Built =>
        LET sql == bResult.sql
        IN /\ ClausePos(1) = 1
           /\ \A k \in 1 .. 7 : (ClausePos(k) > 0) <=> ClauseWanted(k)
           /\ \A k \in 1 .. 6 : Count(ClauseWords[k]) <= 1
           /\ \A j, k \in 1 .. 7 :
                 (j < k /\ ClausePos(j) > 0 /\ ClausePos(k) > 0) => ClausePos(j) < ClausePos(k)
           /\ \A i \in DOMAIN sql :
                 /\ sql[i] = " JOIN " =>
                       /\ ClausePos(2) < i
                       /\ \A k \in 3 .. 7 : ClausePos(k) > 0 => i < ClausePos(k)
                 /\ sql[i] = " " => (i < Len(sql) /\ sql[i + 1] # " ")
           /\ Count(" JOIN ") = Len(bView.from) - 1

\* A build whose SQL holds every clause: a join, WHERE, GROUP BY, HAVING,
\* ORDER BY and a limit suffix.
C11_Witness ==
    /\ Built
    /\ \A k \in 1 .. 7 : ClausePos(k) > 0
    /\ Count(" JOIN ") >= 1

\* The last n tokens of the SQL.
SqlTail(n) ==
    IF n <= Len(bResult.sql)
    THEN SubSeq(bResult.sql, Len(bResult.sql) - n + 1, Len(bResult.sql))
    ELSE <<>>

\* The words the limit templates of SqlCfgBase write.
LimitWords == {"TOP ", "LIMIT ", " OFFSET ", "FETCH FIRST ", " ROWS ONLY", "ROWNUM <= "}

\* C12: with a limit, style top puts "TOP n " right after SELECT and nothing at
\* the end; fetch_first ends the SQL with its clause on the row count; limit
\* ends it with its clause on the row count and the offset, 0 when the view
\* gives none; another style, or no limit, leaves no limit text at all.
C12_LimitByStyle ==
    Built =>
        LET sql == bResult.sql
            rows == ToString(bView.limit.rows)
            offset == ToString(Get(bView.limit, "offset", 0))
            style == IF HasLimit THEN LimitStyle ELSE "none"
        IN /\ style = "top" =>
                 /\ SubSeq(sql, 1, 4) = <<"SELECT ", "TOP ", rows, " ">>
                 /\ Count("TOP ") = 1
                 /\ \A w \in LimitWords \ {"TOP "} : Count(w) = 0
           /\ style = "fetch_first" =>
                 /\ SqlTail(4) = <<" ", "FETCH FIRST ", rows, " ROWS ONLY">>
                 /\ Count("FETCH FIRST ") = 1
                 /\ \A w \in LimitWords \ {"FETCH FIRST ", " ROWS ONLY"} : Count(w) = 0
           /\ style = "limit" =>
                 /\ SqlTail(5) = <<" ", "LIMIT ", rows, " OFFSET ", offset>>
                 /\ Count("LIMIT ") = 1
                 /\ \A w \in LimitWords \ {"LIMIT ", " OFFSET "} : Count(w) = 0
           /\ style \notin {"top", "fetch_first", "limit"} =>
                 \A w \in LimitWords : Count(w) = 0

\* A view with a limit and no offset was built under the style limit: the
\* offset written is 0.
C12_Witness ==
    /\ Built
    /\ HasLimit /\ LimitStyle = "limit" /\ ~Has(bView.limit, "offset")
    /\ SqlTail(2) = <<" OFFSET ", "0">>

\* The view without its overrides object.
WithoutOverrides(view) == [k \in DOMAIN view \ {"overrides"} |-> view[k]]

\* The view carries an overrides object that is empty for the active dialect:
\* the map is empty or the dialect's entry is.
EmptyOverride ==
    /\ Has(bView, "overrides")
    /\ Get(bView.overrides, ActiveDialect, EmptyDict) = EmptyDict

\* C13: build on a view whose override for the active dialect is empty returns
\* what build returns on the same view without the overrides object.
C13_EmptyOverrideNoOp ==
    (bResult # NoResult /\ EmptyOverride) =>
        bResult = Build(bCfg, WithoutOverrides(bView), bParams).res

\* A view with an empty override for its dialect was built and its filters
\* reached the SQL.
C13_Witness ==
    /\ Built /\ EmptyOverride
    /\ ActiveDialect \in DOMAIN bView.overrides
    /\ ClausePos(3) > 0 /\ ClausePos(5) > 0

\* The connection the claim resolves the view to: the one the view declares,
\* else the default connection of the configuration.
ResolvedConnection ==
    IF Has(bView, "connection") THEN bView.connection ELSE DefaultConnectionName(bCfg)

\* C14: build fails with the unknown-connection error exactly when the
\* connection the view declares, or else the configuration's default
\* connection, is not a configured one, and a build that succeeds returns
\* that name.
C14_ConnectionResolved ==
    bResult # NoResult =>
        /\ (bResult.err = "KeyError: Connection not found")
              <=> (ResolvedConnection \notin ConfiguredNames(bCfg))
        /\ bResult.err = "" => bResult.conn_name = ResolvedConnection


\* The contributing filters of the effective view that go to clause c, in the
\* order the view declares them.
ContributingTo(c) ==
    SelectSeq(EffFilters, LAMBDA f : Contributing(f) /\ ClauseOf(f) = c)

\* The filters that go to WHERE: every clause other than having.
ContributingToWhere ==
    SelectSeq(EffFilters, LAMBDA f : Contributing(f) /\ ClauseOf(f) # "having")

\* The binds the filters fs append, filter after filter.
BindsOf(fs) == Flatten([i \in DOMAIN fs |-> FilterBinds(fs[i], bParams)])

\* The filter whose condition is the token w of the SQL, as a set.
OwnersOf(w) == {i \in DOMAIN EffFilters : Has(EffFilters[i], "where") /\ EffFilters[i].where = <<w>>}

\* The placeholders of the SQL from left to right, each as the parameter id it
\* stands for. Every condition of the filters holds one "?" per parameter id
\* of its filter, in the order of the ids.
PlaceholderIds ==
    Flatten([i \in DOMAIN bResult.sql |->
                IF OwnersOf(bResult.sql[i]) # {}
                THEN Pids(EffFilters[CHOOSE k \in OwnersOf(bResult.sql[i]) : TRUE])
                ELSE <<>>])

\* The value each placeholder of the SQL is to receive, from left to right.
PlaceholderBinds ==
    Flatten([i \in DOMAIN bResult.sql |->
                IF OwnersOf(bResult.sql[i]) # {}
                THEN FilterBinds(EffFilters[CHOOSE k \in OwnersOf(bResult.sql[i]) : TRUE], bParams)
                ELSE <<>>])

\* C20: the binds build returns are the binds of the WHERE filters followed by
\* the binds of the HAVING filters, in whatever order the view declares the
\* filters, so that there is one bind per placeholder of the SQL and the i-th
\* bind is the value of the i-th placeholder.
C20_BindsFollowPlaceholders ==
    Built =>
        /\ bResult.binds = BindsOf(ContributingToWhere) \o BindsOf(ContributingTo("having"))
        /\ Len(bResult.binds) = Len(PlaceholderIds)
        /\ bResult.binds = PlaceholderBinds
        /\ \A i \in DOMAIN PlaceholderIds :
              PlaceholderIds[i] \in DOMAIN bParams =>
                  bResult.binds[i] = bParams[PlaceholderIds[i]]

\* A build of a view that declares a HAVING filter before a WHERE filter, both
\* contributing, each with a value of its own.
C20_Witness ==
    /\ Built
    /\ \E i, j \in DOMAIN EffFilters :
          /\ i < j
          /\ Contributing(EffFilters[i]) /\ ClauseOf(EffFilters[i]) = "having"
          /\ Contributing(EffFilters[j]) /\ ClauseOf(EffFilters[j]) # "having"
    /\ Len(bResult.binds) >= 2
    /\ \A i, j \in DOMAIN bResult.binds : i # j => bResult.binds[i] # bResult.binds[j]
    /\ \A i \in DOMAIN PlaceholderIds : PlaceholderIds[i] \in DOMAIN bParams

----------------------------------------------------------------------------
(* Claims about ColumnFilterProxyModel, checked under SpecProxy *)

\* The last call was setColumnFilter; the rule it left for its column.
FilterSet == pRet.op = "setColumnFilter"
StoredRule == Get(pFilters, pRet.column, NoRule)

\* The pattern typed, trimmed; without its date prefix; whether it had one.
Trimmed == IF pPattern = PyNone THEN <<>> ELSE Strip(pPattern.s)
HasDatePrefix ==
    \/ StartsWith(LowerText(Trimmed), <<"d", "a", "t", "e", ":">>)
    \/ StartsWith(LowerText(Trimmed), <<"d", "t", ":">>)
Unprefixed == IF HasDatePrefix THEN Strip(AfterColon(Trimmed)) ELSE Trimmed

\* The forms of the grammar, each asked on its own whether it applies to the
\* pattern: the regex prefix; a comparison whose operand is a date or a
\* number; two numbers around two points; two dates around two points.
RegexForm == StartsWith(LowerText(Trimmed), <<"r", "e", ":">>)
CompareForm ==
    LET m == CmpRe(Unprefixed)
    IN /\ m.m
       /\ \/ (HasDatePrefix \/ LooksLikeDate(m.rhs)) /\ ParseDatetime(m.rhs) # PyNone
          \/ ParseNumber(m.rhs) # PyNone
NumberRangeForm ==
    LET m == NumRngRe(Unprefixed)
    IN m.m /\ ParseNumber(m.a) # PyNone /\ ParseNumber(m.b) # PyNone
DateRangeForm ==
    LET m == AnyRngRe(Unprefixed)
    IN /\ m.m
       /\ (HasDatePrefix \/ LooksLikeDate(m.a) \/ LooksLikeDate(m.b))
       /\ ParseDatetime(m.a) # PyNone /\ ParseDatetime(m.b) # PyNone

\* C16: setColumnFilter classifies the trimmed pattern by strict precedence:
\* an empty pattern leaves no rule; else the prefix re: gives a regex rule;
\* else, on the text without its date prefix, a comparison gives a compare
\* rule, else a numeric range a numeric range rule, else a date range a date
\* range rule, and only a text of none of these forms is stored as a
\* substring rule.  An earlier form wins over a later one that applies too.
C16_StrictPrecedence ==
    FilterSet =>
        IF Trimmed = <<>> THEN StoredRule = NoRule
        ELSE IF RegexForm THEN StoredRule = Regex(Rest(Trimmed, 4))
        ELSE IF CompareForm THEN StoredRule.kind \in {"dt_cmp", "num_cmp"}
        ELSE IF NumberRangeForm THEN StoredRule.kind = "num_rng"
        ELSE IF DateRangeForm THEN StoredRule.kind = "dt_rng"
        ELSE StoredRule = Substr(Unprefixed)

\* A pattern that is a numeric range and a date range at once was classified:
\* the numeric range, the earlier form, won.
C16_Witness ==
    /\ FilterSet
    /\ ~RegexForm /\ ~CompareForm /\ NumberRangeForm /\ DateRangeForm
    /\ StoredRule.kind = "num_rng"

\* The rules of numbers and of dates, and the cells they cannot read: the text
\* of the cell (empty for None and for a cell the source model has not) is no
\* number, respectively no date.
NumberKinds == {"num_cmp", "num_rng"}
DateKinds == {"dt_cmp", "dt_rng"}
CellText(source_row, col) ==
    LET value == CellValue(pSource, source_row, col)
    IN IF value = PyNone THEN <<>> ELSE value.s
CannotRead(rule, text) ==
    \/ rule.kind \in NumberKinds /\ ParseNumber(text) = PyNone
    \/ rule.kind \in DateKinds /\ ParseDatetime(text) = PyNone

\* The rows were filtered, and the row has a cell that its column's rule of
\* numbers or dates cannot read.
Filtered == pRet.op \in {"setColumnFilter", "clearColumnFilter", "clearAllFilters"}
HasUnreadableCell(source_row) ==
    \E col \in DOMAIN pFilters : CannotRead(pFilters[col], CellText(source_row, col))

\* C17: a cell whose text does not parse as a number (as a date), a null or an
\* empty cell included, does not match a numeric (a date) compare or range
\* rule, whatever the operator: filterAcceptsRow returns False for its row and
\* raises nothing.
C17_UnparseableIsNoMatch ==
    Filtered =>
        \A source_row \in DOMAIN pSource :
            HasUnreadableCell(source_row) => pAccepts[source_row] = Ok(FALSE)

\* A rule "different from a number" met a cell that is no number, and a date
\* range met an empty cell.
C17_Witness ==
    /\ Filtered
    /\ \E col \in DOMAIN pFilters, source_row \in DOMAIN pSource :
          /\ pFilters[col].kind = "num_cmp" /\ pFilters[col].op = <<"!", "=">>
          /\ CellText(source_row, col) # <<>>
          /\ CannotRead(pFilters[col], CellText(source_row, col))
          /\ pAccepts[source_row] = Ok(FALSE)

\* A range pattern as the user writes it: a prefix, a side, two points with or
\* without blanks around them, a side.
RangeDots == {<<".", ".">>, <<" ", ".", ".", " ">>}
RangeText(pre, a, dots, b) == PyStr(pre \o a \o dots \o b)
RangeKinds == {"num_rng", "dt_rng"}

\* Only column 0 has a rule, a range that the last setColumnFilter stored.
RangeStored ==
    /\ FilterSet /\ pRet.column = 0 /\ DOMAIN pFilters = {0}
    /\ pFilters[0].kind \in RangeKinds

RuleLe(rule, a, b) == IF rule.kind = "num_rng" THEN NumLe(a, b) ELSE DtLe(a, b)
RuleParse(rule, text) == IF rule.kind = "num_rng" THEN ParseNumber(text) ELSE ParseDatetime(text)

\* C18: a range filter is insensitive to the order of its sides and inclusive:
\* the rule stored for a..b is the rule of b..a, its bounds are low <= high,
\* and a row whose cell parses to v is accepted exactly when low <= v <= high.
C18_RangeSortedInclusive ==
    RangeStored =>
        LET rule == pFilters[0]
        IN /\ RuleLe(rule, rule.lo, rule.hi)
           /\ \A pre \in {<<>>, <<"d", "a", "t", "e", ":">>}, dots \in RangeDots,
                 a \in RangeSides, b \in RangeSides :
                 pPattern = RangeText(pre, a, dots, b) => RuleOf(RangeText(pre, b, dots, a)) = rule
           /\ \A source_row \in DOMAIN pSource :
                 LET v == RuleParse(rule, CellText(source_row, 0))
                 IN v # PyNone =>
                       pAccepts[source_row] = Ok(RuleLe(rule, rule.lo, v) /\ RuleLe(rule, v, rule.hi))

\* A range written with its larger side first was stored, and the rows of its
\* two end points are accepted while a row with a value outside is not.
C18_Witness ==
    /\ RangeStored
    /\ \E pre \in {<<>>, <<"d", "a", "t", "e", ":">>}, dots \in RangeDots,
          a \in RangeSides, b \in RangeSides :
          /\ pPattern = RangeText(pre, a, dots, b)
          /\ RuleParse(pFilters[0], a) = pFilters[0].hi
          /\ RuleParse(pFilters[0], b) = pFilters[0].lo
          /\ pFilters[0].lo # pFilters[0].hi
    /\ \E r1 \in DOMAIN pSource, r2 \in DOMAIN pSource, r3 \in DOMAIN pSource :
          /\ RuleParse(pFilters[0], CellText(r1, 0)) = pFilters[0].lo
          /\ RuleParse(pFilters[0], CellText(r2, 0)) = pFilters[0].hi
          /\ pAccepts[r1] = Ok(TRUE) /\ pAccepts[r2] = Ok(TRUE)
          /\ RuleParse(pFilters[0], CellText(r3, 0)) # PyNone
          /\ pAccepts[r3] = Ok(FALSE)

\* The pattern has the comparison form and its operand is neither a date nor a
\* number: after the trim and the removal of a date prefix an operator opens
\* the text, and what follows it parses as neither.
UnreadableComparison ==
    /\ FilterSet
    /\ Trimmed # <<>> /\ ~RegexForm
    /\ CmpRe(Unprefixed).m
    /\ ParseDatetime(CmpRe(Unprefixed).rhs) = PyNone
    /\ ParseNumber(CmpRe(Unprefixed).rhs) = PyNone

\* C23 as stated: a comparison whose operand is neither a date nor a number
\* is stored as a substring rule whose needle is the whole trimmed pattern as
\* typed, operator included.
C23_NeedleIsWholeInput ==
    UnreadableComparison => StoredRule = Substr(Trimmed)

\* What the stored rule is in that case: the needle is the trimmed pattern
\* with its date prefix, if it has one, removed and trimmed again, operator
\* included.
C23_NeedleIsUnprefixedText ==
    UnreadableComparison =>
        /\ StoredRule = Substr(Unprefixed)
        /\ ~HasDatePrefix => StoredRule = Substr(Trimmed)

\* A comparison with an unreadable operand was typed behind a date prefix and
\* stored: the needle keeps the operator and has lost the prefix.
C23_Witness ==
    /\ UnreadableComparison
    /\ HasDatePrefix
    /\ StoredRule.kind = "substr"
    /\ StoredRule # Substr(Trimmed)
    /\ StoredRule.patt # CmpRe(Unprefixed).rhs

----------------------------------------------------------------------------
(* Claims about the calls of the proxy, checked under SpecEdit *)

\* The pattern is None, empty or made of blanks.
IsBlank(pattern) == pattern = PyNone \/ Strip(pattern.s) = <<>>

\* C24: a setColumnFilter whose pattern is None, empty or blank leaves its
\* column without a rule, whatever rule it had, and leaves every other column
\* with the rule it had or with none as before.
C24_BlankPatternRemovesRule ==
    [][(pRet'.op = "setColumnFilter" /\ IsBlank(pPattern')) =>
          /\ pRet'.column \notin DOMAIN pFilters'
          /\ DOMAIN pFilters' = DOMAIN pFilters \ {pRet'.column}
          /\ \A c \in DOMAIN pFilters' : pFilters'[c] = pFilters[c]]_vars

\* A blank pattern was set on a column while two other columns had rules: the
\* column has no rule and the two rules are there.
C24_Witness ==
    /\ pRet.op = "setColumnFilter"
    /\ IsBlank(pPattern)
    /\ pRet.column \notin DOMAIN pFilters
    /\ DOMAIN pFilters = EditColumns \ {pRet.column}
    /\ \E c, d \in DOMAIN pFilters : pFilters[c].kind # pFilters[d].kind

\* The text filterAcceptsRow reads in a column of a row: the text of the
\* cell, empty for a None cell and for a column the source model has not.
CellOrEmpty(source_row, col) ==
    IF (col + 1) \in DOMAIN pSource[source_row] /\ pSource[source_row][col + 1] # PyNone
    THEN pSource[source_row][col + 1]
    ELSE PyStr(<<>>)

\* The rule of the column matches the row.
ColumnMatches(source_row, col) == Matches(pFilters[col], CellOrEmpty(source_row, col)).val

\* C28: after the rows were filtered, a row is accepted exactly when the rule
\* of every column that has one matches the row's cell in that column; with
\* no rule every row is accepted; the rule of a column the source model has
\* not is matched against the empty text, and no row raises.
C28_ConjunctionOverColumns ==
    Filtered =>
        \A source_row \in DOMAIN pSource :
            /\ pAccepts[source_row].err = ""
            /\ pAccepts[source_row].val
                  = (\A col \in DOMAIN pFilters : ColumnMatches(source_row, col))
            /\ pFilters = EmptyDict => pAccepts[source_row].val

\* Rules on both columns of the source model and on a column it has not: a
\* row is accepted, the empty text matching the third rule, and a row that
\* one of the two rules matches and the other does not is rejected.
C28_Witness ==
    /\ Filtered
    /\ DOMAIN pFilters = EditColumns
    /\ \E source_row \in DOMAIN pSource : pAccepts[source_row].val
    /\ \E source_row \in DOMAIN pSource :
          /\ ~pAccepts[source_row].val
          /\ ColumnMatches(source_row, 0) /\ ~ColumnMatches(source_row, 1)
          /\ ColumnMatches(source_row, 2)

----------------------------------------------------------------------------
(* Claims about DFCache called by several threads, checked under SpecThreads *)

\* No call is under way.
Quiescent == \A t \in Threads : Ready(t)

\* No key can have left the cache in any serial order of the calls made so
\* far: clear was never called and no more keys were set than the cache holds.
NothingRemoved == ~tHist.cleared /\ Cardinality(tHist.started) <= capacity

\* The thread's get has returned, of a key whose set had returned before the
\* get was called.
GotKnownKey(t) == tOp[t].op = "get" /\ At(t, "done") /\ tOp[t].known

\* C19: the cache serializes get, set and clear of concurrent threads, every
\* interleaving being equivalent to a serial order of the whole calls: no call
\* raises, a get racing with another call never reports a resident key as
\* missing, and once the calls are complete no entry is lost and the cache
\* holds no more entries than its capacity.
C19_CallsAreSerialized ==
    /\ \A t \in Threads : tOp[t].err = ""
    /\ \A t \in Threads : (GotKnownKey(t) /\ NothingRemoved) => tOp[t].ret # NoDF
    /\ Quiescent => Len(store) <= capacity
    /\ (Quiescent /\ NothingRemoved) => tHist.completed \subseteq Keys(store)

----------------------------------------------------------------------------
(* Claims about DFCache, checked under SpecCache *)

\* The keys set since the cache was last empty (construction or clear).
Touched == {k \in CacheKeys : lastAccess[k] > 0}

\* C1: the capacity is at least 1 and the number of resident entries never exceeds
\* it; the cache holds min(C, number of distinct keys set since it was last empty)
\* entries, so C+1 distinct keys set into an empty cache leave exactly C resident.
C1_CapacityBound ==
    /\ capacity >= 1
    /\ Len(store) <= capacity
    /\ Cardinality(Keys(store)) = Len(store)
    /\ Len(store) = Min(capacity, Cardinality(Touched))

C1_Witness ==
    /\ last.op = "set"
    /\ Cardinality(Touched) = capacity + 1
    /\ Len(store) = capacity

\* The store lists the resident keys by the time of their last access, oldest first.
RecencyOrdered(s, la) ==
    \A i, j \in DOMAIN s : i < j => la[s[i].key] < la[s[j].key]

\* C2: a set evicts at most one entry, exactly when it brings a new key to a full
\* cache, and the evicted key is the resident key whose last access (get hit or
\* set) is the oldest; a get evicts nothing and a get hit makes its key the most
\* recently used one, the store staying ordered by last access.
C2_EvictsLeastRecentlyAccessed ==
    [][ /\ last'.op = "set" =>
            /\ Cardinality(last'.evicted) <= 1
            /\ (last'.evicted # {}) <=>
                   (last'.key \notin Keys(store) /\ Len(store) = capacity)
            /\ \A e \in last'.evicted :
                   \A k \in Keys(store) : lastAccess[e] <= lastAccess[k]
        /\ last'.op = "get" =>
            /\ last'.evicted = {}
            /\ last'.key \in Keys(store) => store'[Len(store')].key = last'.key
        /\ RecencyOrdered(store', lastAccess')
      ]_vars

\* A set has evicted a key that became resident after a key that survives: the
\* survivor was kept by a later access, not by its insertion time.
C2_Witness ==
    /\ last.op = "set"
    /\ \E e \in last.evicted : \E k \in Keys(store) :
           /\ k # last.key
           /\ insertedAt[k] < insertedAt[e]

\* C3: a get of a key that is not resident returns None and leaves the entries,
\* their values and their order as they were.
C3_MissLeavesCacheUnchanged ==
    [][ (last'.op = "get" /\ last'.key \notin Keys(store)) =>
            (last'.ret = NoDF /\ store' = store) ]_vars

C3_Witness ==
    /\ last.op = "get"
    /\ last.ret = NoDF
    /\ last.key \notin Keys(store)
    /\ Len(store) >= 1

\* No key stands twice in the store.
OneEntryPerKey == \A i, j \in DOMAIN store : store[i].key = store[j].key => i = j

\* C26: a set on a key that is resident puts the new value under the key at
\* the most recently used end, keeps every other entry and their order, so
\* that the number of entries is the same and no key is evicted; after every
\* call the store holds each key at most once.
C26_SetReplacesResident ==
    [][/\ \A key \in CacheKeys, df \in DFs :
             (CacheSet(key, df) /\ key \in Keys(store)) =>
                 /\ Len(store') = Len(store)
                 /\ Keys(store') = Keys(store)
                 /\ store'[Len(store')] = [key |-> key, df |-> df]
                 /\ SubSeq(store', 1, Len(store') - 1) = Pop(store, key)
                 /\ last'.evicted = {}
       /\ OneEntryPerKey']_vars

\* A set on a key resident in a full cache of two entries that was not the
\* most recently used: nothing was evicted and the key is now the most
\* recently used.
C26_Witness ==
    /\ last.op = "set"
    /\ insertedAt[last.key] < lastAccess[last.key]
    /\ Len(store) = capacity /\ capacity >= 2
    /\ last.evicted = {}
    /\ store[Len(store)].key = last.key
    /\ \E k \in Keys(store) \ {last.key} : insertedAt[last.key] < lastAccess[k]

====
